---- MODULE Spec2Model ----
(***************************************************************************)
(* Model of the intake pipeline of PlogDev/digital_invoice:                *)
(*   backend/app/services/ocr_scheduler.py          (OCRScheduler)         *)
(*   backend/app/services/document_processing/*.py  (processor registry,   *)
(*                                                   WareneingangProcessor)*)
(*   backend/app/repositories/dokument_repository.py                       *)
(*                                                                         *)
(* The scheduler runs on one asyncio event loop.  A coroutine keeps the    *)
(* loop until it awaits something that really suspends; the only such      *)
(* places in a poll are the three asyncio.to_thread calls (OCR, blank-page *)
(* filter, preview extraction) and the sleep between two polls.  The model *)
(* gives every task a program counter; a task whose counter is not one of  *)
(* the suspended ones holds the event loop, and no other coroutine moves.  *)
(* Worker threads, the operating system (a crash) and external users of    *)
(* the intake directory run in parallel with the loop.                     *)
(***************************************************************************)
EXTENDS Integers, Sequences, FiniteSets, TLC

\* ------------------------------------------------------------------ bounds
MaxPad == 31         \* lines of other text before the lines under study
MaxBody == 4         \* lines under study on a page
MaxCandLen == 4      \* characters of a candidate line enumerated in full
MaxProcs == 3        \* processors registered with the manager
MaxRows == 1         \* rows of the reference table
MaxValLen == 4       \* characters of a LIEFERSCHEINNR value
MaxTableRows == 6    \* rows of a reference table searched for one identifier
MaxDataLines == 2    \* lines after the header line in a reference file
MaxRefFiles == 2     \* entries of the reference directory
NumFiles == 2        \* PDF files dropped into the intake directory
MaxTasks == 2        \* asyncio tasks alive at once (polling loop + force checks)
MaxCrashes == 1      \* process crashes / restarts explored
MaxStops == 1        \* effective Stop() calls explored
MaxDocs == 2         \* rows the dokumente table can take in the model
NumNrs == 1          \* distinct delivery-note numbers

Files == 1..NumFiles
Tasks == 1..MaxTasks
Nrs == 1..NumNrs

\* What the first page of a file says: a goods receipt ("Wareneingang" followed
\* by a valid number) or anything else.
Kinds == {"we", "other"}

\* The stages of one pass, in the order of _process_single_file_complete.
Stages == <<"ocr", "blank", "register", "doc">>
StageSet == {Stages[i] : i \in 1..Len(Stages)}
StageIndex(s) == CHOOSE i \in 1..Len(Stages) : Stages[i] = s

VARIABLES
    running,          \* OCRScheduler.running
    processed_files,  \* OCRScheduler.processed_files (in memory)
    taskRef,          \* OCRScheduler._task: the loop task last created
    tasks,            \* the asyncio tasks: kind, pc, current file, todo list, ...
    orphans,          \* worker threads whose awaiting task was cancelled
    inIntake,         \* PDFs present in PDF_INPUT_DIR
    processedTree,    \* document ids whose file lies under PDF_PROCESSED_DIR
    markers,          \* sidecar files <<file, suffix>> next to the intake path
    docs,             \* dokumente table, in order of creation (id = index)
    lieferscheine,    \* lieferschein_extern rows per number
    chargen,          \* chargen_einkauf rows (imported line items) per number
    kind,             \* content class of each file (never changes)
    crashes,          \* crashes so far
    stops,            \* Stop() calls that stopped a running scheduler so far
    ran,              \* history: the <<file, stage>> pairs executed so far
    doneAtCrash,      \* history: stages completed for a file at the last crash
    passDone,         \* history: files for which a pass ran to its end (line 269)
    fx                \* the call of a pure function under study: input and result

vars == <<running, processed_files, taskRef, tasks, orphans, inIntake,
          processedTree, markers, docs, lieferscheine, chargen, kind,
          crashes, stops, ran, doneAtCrash, passDone, fx>>

\* ----------------------------------------------------------------- helpers
OcrSuffix == "ocr_processed"
DocSuffix == "doc_processed"
Suffixes == {OcrSuffix, DocSuffix}

NoPath == <<"none", 0>>
IntakePath(f) == <<"in", f>>
ProcessedPath(i) == <<"proc", i>>

\* No pure function is under study while the service runs.
NoCall == [op |-> "none"]

IdleTask == [kind |-> "none", pc |-> "none", cur |-> 0, todo |-> {},
             res |-> FALSE, dok |-> 0]

\* Program counters at which a coroutine is suspended and the event loop is free.
SuspendedPcs == {"none", "ready", "ocr_wait", "ocr_ret", "blank_wait", "blank_ret",
                 "prev_wait", "prev_ret"}
\* Program counters at which a worker thread started by the task is running.
ThreadPcs == {"ocr_wait", "blank_wait", "prev_wait"}
ThreadOp(pc) == IF pc = "ocr_wait" THEN "ocr" ELSE IF pc = "blank_wait" THEN "blank" ELSE "preview"

LoopFree == \A t \in Tasks : tasks[t].pc \in SuspendedPcs

FreeSlots == {t \in Tasks : tasks[t].kind = "none"}
LoopTasks == {t \in Tasks : tasks[t].kind = "loop"}

Ran(f, s) == ran \cup {<<f, s>>}

\* The delivery-note number printed on a goods receipt.
NrOf(f) == ((f - 1) % NumNrs) + 1
\* Rows of the reference table whose LIEFERSCHEINNR equals the number.
RefMatches(nr) == 1

PathExists(p) ==
    \/ p[1] = "in" /\ p[2] \in inIntake
    \/ p[1] = "proc" /\ p[2] \in processedTree

DocIds == 1..Len(docs)
\* Rows whose dateiname column still equals the intake filename f.
DocsNamed(f) == {i \in DocIds : docs[i].name = f /\ ~docs[i].renamed}

IsFileInDatabase(f) == DocsNamed(f) # {}

FindCurrentFilePath(f) ==
    IF f \in inIntake THEN IntakePath(f)
    ELSE IF \E i \in DocsNamed(f) : PathExists(docs[i].pfad)
         THEN docs[CHOOSE i \in DocsNamed(f) : PathExists(docs[i].pfad)].pfad
         \* the walk over PDF_PROCESSED_DIR compares canonical names with f
         ELSE NoPath

OcrDone(f) == <<f, OcrSuffix>> \in markers
DocProcessingDone(f) == <<f, DocSuffix>> \in markers

\* A selection that looks at the stages only.
NeedsProcessingByStages(f) ==
    ~OcrDone(f) \/ ~IsFileInDatabase(f) \/ ~DocProcessingDone(f)

\* lines 148-150
NeedsProcessing(f) ==
    /\ f \notin processed_files
    /\ (~OcrDone(f) \/ ~IsFileInDatabase(f) \/ ~DocProcessingDone(f))

FilesToProcess == {f \in inIntake : NeedsProcessing(f)}

\* A start that loads nothing.
LoadNothing == {}

\* _load_processed_files: the files with both markers
LoadProcessedFiles == {f \in inIntake : OcrDone(f) /\ DocProcessingDone(f)}

\* get_all() is newest first; _find_document_by_path takes the first hit.
FindDocumentByPath(p) ==
    LET hits == {i \in DocIds : (~docs[i].renamed /\ p[1] = "in" /\ docs[i].name = p[2])
                                 \/ docs[i].pfad = p}
    IN IF hits = {} THEN 0 ELSE CHOOSE i \in hits : \A j \in hits : j <= i

Set(t, r) == tasks' = [tasks EXCEPT ![t] = r]
Goto(t, pc) == Set(t, [tasks[t] EXCEPT !.pc = pc])

UnchangedDisk == UNCHANGED <<inIntake, processedTree, markers, docs, lieferscheine,
                             chargen, kind, fx>>
UnchangedSched == UNCHANGED <<running, processed_files, taskRef>>
UnchangedHist == UNCHANGED <<crashes, stops, ran, doneAtCrash, passDone>>

\* -------------------------------------------------------------------- Init
\* The service as constructed, with nothing in the database.
Fresh ==
    /\ running = FALSE
    /\ processed_files = {}
    /\ taskRef = 0
    /\ tasks = [t \in Tasks |-> IdleTask]
    /\ orphans = {}
    /\ inIntake = Files
    /\ processedTree = {}
    /\ markers = {}
    /\ docs = <<>>
    /\ lieferscheine = [n \in Nrs |-> 0]
    /\ chargen = [n \in Nrs |-> 0]
    /\ crashes = 0
    /\ stops = 0
    /\ ran = {}
    /\ doneAtCrash = [f \in Files |-> {}]
    /\ passDone = {}

Init ==
    /\ Fresh
    /\ kind \in {k \in [Files -> Kinds] : \A f \in Files : f > 1 => k[f] = "we"}
    /\ fx = NoCall

\* ------------------------------------------------------- scheduler control
\* Start without the check of the running flag (lines 38-40 dropped).
StartUnguarded ==
    /\ LoopFree
    /\ FreeSlots # {}
    /\ LET t == CHOOSE x \in FreeSlots : \A y \in FreeSlots : x <= y
       IN /\ running' = TRUE
          /\ processed_files' = processed_files \cup LoadProcessedFiles
          /\ taskRef' = t
          /\ Set(t, [IdleTask EXCEPT !.kind = "loop", !.pc = "ready"])
    /\ UNCHANGED orphans
    /\ UnchangedDisk /\ UnchangedHist

\* OCRScheduler.start
Start ==
    /\ LoopFree
    /\ IF running
       THEN UNCHANGED vars
       ELSE /\ FreeSlots # {}
            /\ LET t == CHOOSE x \in FreeSlots : \A y \in FreeSlots : x <= y
               IN /\ running' = TRUE
                  /\ processed_files' = processed_files \cup LoadProcessedFiles
                  /\ taskRef' = t
                  /\ Set(t, [IdleTask EXCEPT !.kind = "loop", !.pc = "ready"])
            /\ UNCHANGED orphans
            /\ UnchangedDisk /\ UnchangedHist

\* The worker thread a cancelled task leaves behind: threads cannot be cancelled.
Orphaned(t) ==
    IF tasks[t].pc \in ThreadPcs
    THEN {[op |-> ThreadOp(tasks[t].pc), file |-> tasks[t].cur]}
    ELSE {}

\* OCRScheduler.stop: cancel() throws CancelledError into the loop task at the
\* await it is suspended in; no handler of the poll catches it (it is not an
\* Exception), so the task ends at once and `await self._task` returns.
Stop ==
    /\ LoopFree
    /\ IF ~running
       THEN UNCHANGED vars
       ELSE /\ stops < MaxStops
            /\ stops' = stops + 1
            /\ running' = FALSE
            /\ IF taskRef # 0 /\ tasks[taskRef].kind = "loop"
               THEN /\ Set(taskRef, IdleTask)
                    /\ orphans' = orphans \cup Orphaned(taskRef)
               ELSE UNCHANGED <<tasks, orphans>>
            /\ UNCHANGED <<processed_files, taskRef>>
            /\ UnchangedDisk
            /\ UNCHANGED <<crashes, ran, doneAtCrash, passDone>>

\* OCRScheduler.force_check
ForceCheck ==
    /\ LoopFree
    /\ IF running
       THEN /\ FreeSlots # {}
            /\ LET t == CHOOSE x \in FreeSlots : \A y \in FreeSlots : x <= y
               IN Set(t, [IdleTask EXCEPT !.kind = "force", !.pc = "ready"])
            /\ UNCHANGED orphans
            /\ UnchangedSched /\ UnchangedDisk /\ UnchangedHist
       ELSE UNCHANGED vars

\* ----------------------------------------------------------------- a poll
\* What a task does when _check_and_process_files returns: the loop sleeps and
\* polls again, a force-check task is over.
AfterPoll(t) ==
    IF tasks[t].kind = "loop"
    THEN [IdleTask EXCEPT !.kind = "loop", !.pc = "ready"]
    ELSE IdleTask

\* _background_loop (one iteration) / _check_and_process_files up to the for loop
BeginPoll(t) ==
    /\ tasks[t].pc = "ready"
    /\ LoopFree
    /\ IF tasks[t].kind = "loop" /\ ~running
       THEN Set(t, IdleTask)
       ELSE IF FilesToProcess = {}
            THEN Set(t, AfterPoll(t))
            ELSE Set(t, [tasks[t] EXCEPT !.pc = "next", !.todo = FilesToProcess])
    /\ UNCHANGED orphans
    /\ UnchangedSched /\ UnchangedDisk /\ UnchangedHist

\* for filename in files_to_process: (os.listdir gives no order)
NextFile(t) ==
    /\ tasks[t].pc = "next"
    /\ IF tasks[t].todo = {}
       THEN Set(t, AfterPoll(t))
       ELSE \E f \in tasks[t].todo :
               Set(t, [tasks[t] EXCEPT !.pc = "file", !.cur = f, !.todo = @ \ {f}])
    /\ UNCHANGED orphans
    /\ UnchangedSched /\ UnchangedDisk /\ UnchangedHist

\* ------------------------------------------------- one file, stage by stage
\* A pass that goes on to the blank-page filter without its file.
AfterNotFoundGoesOn == "blank_q"

\* Where a pass goes when the file cannot be located at its start (line 184: return).
AfterNotFound == "next"

\* OCR whether or not the marker exists.
NeedsOcrAlways(f) == TRUE

\* line 194: OCR is needed unless the OCR marker exists.
NeedsOcr(f) == ~OcrDone(f)

\* _process_single_file_complete, lines 179-196: locate the file, start OCR
\* unless the OCR marker exists.
FileStep(t) ==
    /\ tasks[t].pc = "file"
    /\ LET f == tasks[t].cur
       IN IF FindCurrentFilePath(f) = NoPath
          THEN Goto(t, AfterNotFound)
          ELSE IF NeedsOcr(f)
               THEN Goto(t, "ocr_wait")
               ELSE Goto(t, "blank_q")
    /\ UNCHANGED orphans
    /\ UnchangedSched /\ UnchangedDisk /\ UnchangedHist

\* _run_ocr_sync in its worker thread: on success the OCR output is moved over
\* the path the thread was given (the intake path), whatever lies there by then.
OcrEffect(f, ok) ==
    /\ inIntake' = IF ok THEN inIntake \cup {f} ELSE inIntake
    /\ UNCHANGED <<processedTree, markers, docs, lieferscheine, chargen, kind, fx>>

OcrThread(t) ==
    /\ tasks[t].pc = "ocr_wait"
    /\ LoopFree
    /\ \E ok \in BOOLEAN :
          /\ Set(t, [tasks[t] EXCEPT !.pc = "ocr_ret", !.res = ok])
          /\ OcrEffect(tasks[t].cur, ok)
    /\ UNCHANGED orphans
    /\ UnchangedSched /\ UnchangedHist

\* A pass that goes on to document processing after a failed OCR.
AfterOcrFailureGoesOn == "doc_q"

\* Where a pass goes when OCR reported failure (line 205: return).
AfterOcrFailure == "next"

\* A pass whose error ends the poll: the task is over, or sleeps, and the
\* remaining files are dropped.
AfterPassErrorEndsPoll(t) == AfterPoll(t)

\* lines 273-276 and 158-159: the handler of the pass logs the error and the
\* for loop of the poll goes on with the next file.
AfterPassError(t) == [tasks[t] EXCEPT !.pc = "next", !.res = FALSE]

\* lines 198-207: the marker is created by open(); getmtime raises when the file
\* is gone by then, which ends the pass in the handler of line 273.
OcrReturn(t) ==
    /\ tasks[t].pc = "ocr_ret"
    /\ LoopFree
    /\ LET f == tasks[t].cur
       IN IF tasks[t].res
          THEN /\ markers' = markers \cup {<<f, OcrSuffix>>}
               /\ ran' = Ran(f, "ocr")
               /\ IF f \in inIntake
                  THEN /\ Set(t, [tasks[t] EXCEPT !.pc = "blank_q", !.res = FALSE])
                       /\ UNCHANGED processed_files
                  ELSE /\ Set(t, AfterPassError(t))
                       /\ processed_files' = processed_files \cup {f}
          ELSE /\ Goto(t, AfterOcrFailure)
               /\ UNCHANGED <<markers, processed_files, ran>>
    /\ UNCHANGED <<running, taskRef, orphans>>
    /\ UNCHANGED <<inIntake, processedTree, docs, lieferscheine, chargen, kind, fx>>
    /\ UNCHANGED <<crashes, stops, doneAtCrash, passDone>>

\* lines 209-215: the blank-page filter runs on every pass that gets here.
BlankStep(t) ==
    /\ tasks[t].pc = "blank_q"
    /\ IF FindCurrentFilePath(tasks[t].cur) # NoPath
       THEN Goto(t, "blank_wait")
       ELSE Goto(t, "reg_q")
    /\ UNCHANGED orphans
    /\ UnchangedSched /\ UnchangedDisk /\ UnchangedHist

\* _remove_blank_pages_pillow in its worker thread: it opens the file it was
\* given; a missing file ends it in its own handler.
BlankEffect(f) ==
    /\ ran' = IF f \in inIntake THEN Ran(f, "blank") ELSE ran
    /\ UNCHANGED <<crashes, stops, doneAtCrash, passDone>>

BlankThread(t) ==
    /\ tasks[t].pc = "blank_wait"
    /\ LoopFree
    /\ Goto(t, "blank_ret")
    /\ BlankEffect(tasks[t].cur)
    /\ UNCHANGED orphans
    /\ UnchangedSched /\ UnchangedDisk

BlankReturn(t) ==
    /\ tasks[t].pc = "blank_ret"
    /\ LoopFree
    /\ Goto(t, "reg_q")
    /\ UNCHANGED orphans
    /\ UnchangedSched /\ UnchangedDisk /\ UnchangedHist

\* lines 217-224 and _add_to_database up to the awaited preview extraction.
RegisterStep(t) ==
    /\ tasks[t].pc = "reg_q"
    /\ LET f == tasks[t].cur
       IN IF ~IsFileInDatabase(f) /\ FindCurrentFilePath(f) # NoPath
          THEN Goto(t, "prev_wait")
          ELSE Goto(t, "doc_q")
    /\ UNCHANGED orphans
    /\ UnchangedSched /\ UnchangedDisk /\ UnchangedHist

\* OCRService.extract_preview_text in its worker thread
PreviewThread(t) ==
    /\ tasks[t].pc = "prev_wait"
    /\ LoopFree
    /\ Goto(t, "prev_ret")
    /\ UNCHANGED orphans
    /\ UnchangedSched /\ UnchangedDisk /\ UnchangedHist

\* _add_to_database, lines 482-492: DokumentRepository.create; a failure of the
\* database is logged and the pass goes on.
PreviewReturn(t) ==
    /\ tasks[t].pc = "prev_ret"
    /\ LoopFree
    /\ LET f == tasks[t].cur
       IN \/ /\ Len(docs) < MaxDocs
             /\ docs' = Append(docs, [name |-> f, renamed |-> FALSE,
                                      pfad |-> IntakePath(f), cat |-> FALSE])
             /\ ran' = Ran(f, "register")
          \/ UNCHANGED <<docs, ran>>
    /\ Goto(t, "doc_q")
    /\ UNCHANGED orphans
    /\ UnchangedSched
    /\ UNCHANGED <<inIntake, processedTree, markers, lieferscheine, chargen, kind, fx>>
    /\ UNCHANGED <<crashes, stops, doneAtCrash, passDone>>

\* lines 226-238 and 265-266: document processing unless its marker exists; a
\* file that cannot be located gets the marker all the same and counts as
\* processed.
DocStep(t) ==
    /\ tasks[t].pc = "doc_q"
    /\ LET f == tasks[t].cur
       IN IF DocProcessingDone(f)
          THEN /\ Goto(t, "fin")
               /\ UNCHANGED <<markers, processed_files>>
          ELSE IF FindCurrentFilePath(f) = NoPath
               THEN /\ markers' = markers \cup {<<f, DocSuffix>>}
                    /\ processed_files' = processed_files \cup {f}
                    /\ Goto(t, "next")
               ELSE /\ Goto(t, "doc_proc")
                    /\ UNCHANGED <<markers, processed_files>>
    /\ UNCHANGED <<running, taskRef, orphans>>
    /\ UNCHANGED <<inIntake, processedTree, docs, lieferscheine, chargen, kind, fx>>
    /\ UnchangedHist

\* A process that creates the delivery note without looking for it first.
DocProcNoLookup(t) ==
    /\ tasks[t].pc = "doc_proc"
    /\ LET f == tasks[t].cur
           nr == NrOf(f)
           i == FindDocumentByPath(FindCurrentFilePath(f))
       IN /\ ran' = Ran(f, "doc")
          /\ IF kind[f] # "we" \/ i = 0
             THEN \* not a goods receipt, no number, or no document row
                  /\ Set(t, [tasks[t] EXCEPT !.pc = "doc_mark", !.res = FALSE])
                  /\ UNCHANGED <<docs, lieferscheine, chargen>>
             ELSE /\ docs' = [docs EXCEPT ![i].cat = TRUE]
                  /\ \/ /\ lieferscheine' = [lieferscheine EXCEPT ![nr] = @ + 1]
                        /\ chargen' = [chargen EXCEPT ![nr] = @ + RefMatches(nr)]
                        /\ Set(t, [tasks[t] EXCEPT !.pc = "doc_move", !.dok = i, !.res = TRUE])
                     \/ \* the reference files cannot be read: _import_csv_data
                        \* returns 0 and process goes on (lines 114-121)
                        /\ lieferscheine' = [lieferscheine EXCEPT ![nr] = @ + 1]
                        /\ UNCHANGED chargen
                        /\ Set(t, [tasks[t] EXCEPT !.pc = "doc_move", !.dok = i, !.res = TRUE])
                     \/ \* LieferscheinExternRepository.create returned None
                        /\ Set(t, [tasks[t] EXCEPT !.pc = "doc_mark", !.res = FALSE])
                        /\ UNCHANGED <<lieferscheine, chargen>>
    /\ UNCHANGED <<running, processed_files, taskRef, orphans>>
    /\ UNCHANGED <<inIntake, processedTree, markers, kind, fx>>
    /\ UNCHANGED <<crashes, stops, doneAtCrash, passDone>>

\* DocumentProcessorManager.process_document with the one registered processor:
\* WareneingangProcessor.can_handle, then process down to the CSV import
\* (lines 63-118).  The move follows in DocMove.
DocProc(t) ==
    /\ tasks[t].pc = "doc_proc"
    /\ LET f == tasks[t].cur
           nr == NrOf(f)
           i == FindDocumentByPath(FindCurrentFilePath(f))
       IN /\ ran' = Ran(f, "doc")
          /\ IF kind[f] # "we" \/ i = 0
             THEN \* not a goods receipt, no number, or no document row
                  /\ Set(t, [tasks[t] EXCEPT !.pc = "doc_mark", !.res = FALSE])
                  /\ UNCHANGED <<docs, lieferscheine, chargen>>
             ELSE /\ docs' = [docs EXCEPT ![i].cat = TRUE]
                  /\ IF lieferscheine[nr] > 0
                     THEN /\ Set(t, [tasks[t] EXCEPT !.pc = "doc_move", !.dok = i, !.res = TRUE])
                          /\ UNCHANGED <<lieferscheine, chargen>>
                     ELSE \/ /\ lieferscheine' = [lieferscheine EXCEPT ![nr] = @ + 1]
                             /\ chargen' = [chargen EXCEPT ![nr] = @ + RefMatches(nr)]
                             /\ Set(t, [tasks[t] EXCEPT !.pc = "doc_move", !.dok = i, !.res = TRUE])
                          \/ \* the reference files cannot be read: _import_csv_data
                             \* returns 0 and process goes on (lines 114-121)
                             /\ lieferscheine' = [lieferscheine EXCEPT ![nr] = @ + 1]
                             /\ UNCHANGED chargen
                             /\ Set(t, [tasks[t] EXCEPT !.pc = "doc_move", !.dok = i, !.res = TRUE])
                          \/ \* LieferscheinExternRepository.create returned None
                             /\ Set(t, [tasks[t] EXCEPT !.pc = "doc_mark", !.res = FALSE])
                             /\ UNCHANGED <<lieferscheine, chargen>>
    /\ UNCHANGED <<running, processed_files, taskRef, orphans>>
    /\ UNCHANGED <<inIntake, processedTree, markers, kind, fx>>
    /\ UNCHANGED <<crashes, stops, doneAtCrash, passDone>>

\* WareneingangProcessor._move_document_to_category and _cleanup_marker_files
DocMove(t) ==
    /\ tasks[t].pc = "doc_move"
    /\ LET i == tasks[t].dok
           alter_pfad == docs[i].pfad
           f == docs[i].name
       IN IF ~PathExists(alter_pfad) \/ alter_pfad[1] = "proc"
          THEN UNCHANGED <<inIntake, processedTree, markers, docs>>
          ELSE /\ inIntake' = inIntake \ {f}
               /\ processedTree' = processedTree \cup {i}
               /\ markers' = markers \ {<<f, OcrSuffix>>, <<f, DocSuffix>>}
               /\ \/ docs' = [docs EXCEPT ![i].pfad = ProcessedPath(i), ![i].renamed = TRUE]
                  \/ \* update_pfad_und_dateiname returned None (result not looked at)
                     UNCHANGED docs
    /\ Set(t, [tasks[t] EXCEPT !.pc = "doc_mark", !.dok = 0])
    /\ UNCHANGED <<running, processed_files, taskRef, orphans>>
    /\ UNCHANGED <<lieferscheine, chargen, kind, fx>>
    /\ UnchangedHist

\* A marker that is written only when process_document reported success.
DocMarkOnSuccess(t) ==
    /\ tasks[t].pc = "doc_mark"
    /\ markers' = IF tasks[t].res THEN markers \cup {<<tasks[t].cur, DocSuffix>>} ELSE markers
    /\ Set(t, [tasks[t] EXCEPT !.pc = "fin", !.res = FALSE])
    /\ UNCHANGED <<running, processed_files, taskRef, orphans>>
    /\ UNCHANGED <<inIntake, processedTree, docs, lieferscheine, chargen, kind, fx>>
    /\ UnchangedHist

\* lines 246-253 and 260-264: the marker is written whatever process_document
\* returned, and when it raised.
DocMark(t) ==
    /\ tasks[t].pc = "doc_mark"
    /\ markers' = markers \cup {<<tasks[t].cur, DocSuffix>>}
    /\ Set(t, [tasks[t] EXCEPT !.pc = "fin", !.res = FALSE])
    /\ UNCHANGED <<running, processed_files, taskRef, orphans>>
    /\ UNCHANGED <<inIntake, processedTree, docs, lieferscheine, chargen, kind, fx>>
    /\ UnchangedHist

\* lines 268-271
Finish(t) ==
    /\ tasks[t].pc = "fin"
    /\ processed_files' = processed_files \cup {tasks[t].cur}
    /\ passDone' = passDone \cup {tasks[t].cur}
    /\ Goto(t, "next")
    /\ UNCHANGED <<running, taskRef, orphans>>
    /\ UnchangedDisk
    /\ UNCHANGED <<crashes, stops, ran, doneAtCrash>>

\* ------------------------------------------------------------ environment
\* A worker thread whose task was cancelled runs to its end.
OrphanDone(o) ==
    /\ o \in orphans
    /\ LoopFree
    /\ orphans' = orphans \ {o}
    /\ IF o.op = "ocr"
       THEN (\E ok \in BOOLEAN : OcrEffect(o.file, ok)) /\ UnchangedHist
       ELSE IF o.op = "blank"
            THEN BlankEffect(o.file) /\ UnchangedDisk
            ELSE UnchangedDisk /\ UnchangedHist
    /\ UNCHANGED tasks
    /\ UnchangedSched

\* Someone removes a file from the intake directory.
ExternalRemove(f) ==
    /\ f \in inIntake
    /\ LoopFree
    /\ inIntake' = inIntake \ {f}
    /\ UNCHANGED <<tasks, orphans>>
    /\ UnchangedSched
    /\ UNCHANGED <<processedTree, markers, docs, lieferscheine, chargen, kind, fx>>
    /\ UnchangedHist

\* What had been completed for a file: its stages, and whether the OCR marker lay
\* on disk.
StagesDone(f) == {s \in StageSet : <<f, s>> \in ran}
                    \cup (IF OcrDone(f) THEN {"ocr_marker"} ELSE {})

\* The process dies and is started again later: memory and threads are lost,
\* the directories and the database stay.
Crash ==
    /\ crashes < MaxCrashes
    /\ crashes' = crashes + 1
    /\ running' = FALSE
    /\ processed_files' = {}
    /\ taskRef' = 0
    /\ tasks' = [t \in Tasks |-> IdleTask]
    /\ orphans' = {}
    /\ doneAtCrash' = [f \in Files |-> StagesDone(f)]
    /\ UnchangedDisk
    /\ UNCHANGED <<stops, ran, passDone>>

\* -------------------------------------------------------------------- Next
\* The steps of a task: a poll, and the stages of each file of the poll.
TaskStep(t) ==
    \/ BeginPoll(t)
    \/ NextFile(t)
    \/ FileStep(t)
    \/ OcrThread(t)
    \/ OcrReturn(t)
    \/ BlankStep(t)
    \/ BlankThread(t)
    \/ BlankReturn(t)
    \/ RegisterStep(t)
    \/ PreviewThread(t)
    \/ PreviewReturn(t)
    \/ DocStep(t)
    \/ DocProc(t)
    \/ DocMove(t)
    \/ DocMark(t)
    \/ Finish(t)

\* The running service: the polling loop, manual triggers, start and stop.
Next ==
    \/ Start
    \/ Stop
    \/ ForceCheck
    \/ \E t \in Tasks : TaskStep(t)
    \/ \E o \in orphans : OrphanDone(o)

Spec == Init /\ [][Next]_vars

\* The unattended service: the polling loop alone, with crashes and restarts
\* and with files removed from the intake directory by others.
NextRestart ==
    \/ Start
    \/ \E t \in Tasks : TaskStep(t)
    \/ \E f \in Files : ExternalRemove(f)
    \/ Crash

SpecRestart == Init /\ [][NextRestart]_vars

\* Everything at once.
NextAll ==
    \/ Next
    \/ \E f \in Files : ExternalRemove(f)
    \/ Crash

SpecAll == Init /\ [][NextAll]_vars

\* ============================================== goods-receipt recognition
\* The text functions of WareneingangProcessor, studied on their own: fx holds
\* the page text given and the result returned; the service stands still.
UnchangedService ==
    UNCHANGED <<running, processed_files, taskRef, tasks, orphans, inIntake,
                processedTree, markers, docs, lieferscheine, chargen, kind,
                crashes, stops, ran, doneAtCrash, passDone>>

\* Characters.  The keyword is one token per spelling; it counts 12 characters.
Keywords == {"Wareneingang", "WARENEINGANG"}
Spaces == {" ", "TAB"}
Unprintable == {"TAB", "BEL"}
Alnums == {"1", "2", "3", "5", "a", "A"} \cup Keywords
IsSpace(c) == c \in Spaces
IsPrintable(c) == c \notin Unprintable
IsAlnum(c) == c \in Alnums
Lower(c) == IF c \in Keywords THEN "wareneingang" ELSE IF c = "A" THEN "a" ELSE c
CharLen(c) == IF c \in Keywords THEN 12 ELSE 1

RECURSIVE StrLen(_)
StrLen(str) == IF str = <<>> THEN 0 ELSE CharLen(Head(str)) + StrLen(Tail(str))

\* str.strip()
RECURSIVE LStrip(_)
LStrip(str) == IF str # <<>> /\ IsSpace(Head(str)) THEN LStrip(Tail(str)) ELSE str
RECURSIVE RStrip(_)
RStrip(str) ==
    IF str # <<>> /\ IsSpace(str[Len(str)]) THEN RStrip(SubSeq(str, 1, Len(str) - 1)) ELSE str
Strip(str) == LStrip(RStrip(str))

\* "wareneingang" in line.lower()
HasAnchor(line) == \E i \in 1..Len(line) : Lower(line[i]) = "wareneingang"

\* The line budgets of can_handle and of _extract_lieferscheinnummer.
CanHandleMaxLines == 20
ExtractMaxLines == 30

\* BaseDocumentProcessor._extract_text_from_pdf: the lines of the first page,
\* stripped, the empty ones dropped, cut to max_lines.
NonEmpty(line) == line # <<>>
ExtractTextFromPdf(page, max_lines) ==
    LET stripped == [i \in 1..Len(page) |-> Strip(page[i])]
        lines == SelectSeq(stripped, NonEmpty)
    IN SubSeq(lines, 1, IF Len(lines) < max_lines THEN Len(lines) ELSE max_lines)

\* WareneingangProcessor.can_handle
CanHandle(page) ==
    LET lines == ExtractTextFromPdf(page, CanHandleMaxLines)
    IN \E i \in 1..Len(lines) : HasAnchor(lines[i])

\* lines 159-164: strip, then drop what is not printable or is whitespace.
KeepChar(c) == IsPrintable(c) /\ ~IsSpace(c)
Clean(line) == SelectSeq(Strip(line), KeepChar)

\* lines 167-169
ValidNr(nr) == nr # <<>> /\ StrLen(nr) >= 3 /\ \E i \in 1..Len(nr) : IsAlnum(nr[i])

\* return None
NoNr == <<>>

\* The for loop of lines 155-175 from line i on: every anchor line is looked at
\* until one is followed by a valid candidate.
RECURSIVE ExtractFrom(_, _)
ExtractFrom(lines, i) ==
    IF i > Len(lines) THEN NoNr
    ELSE IF HasAnchor(lines[i]) /\ i + 1 <= Len(lines) /\ ValidNr(Clean(lines[i + 1]))
         THEN Clean(lines[i + 1])
         ELSE ExtractFrom(lines, i + 1)

\* WareneingangProcessor._extract_lieferscheinnummer
ExtractLieferscheinnummer(page) == ExtractFrom(ExtractTextFromPdf(page, ExtractMaxLines), 1)

\* The pages studied: up to MaxPad lines of other text followed by up to
\* MaxBody lines out of a few (the keyword in two spellings, identifiers with
\* and without blanks, lines the validation rejects, a blank line), and the
\* keyword followed by every candidate line of up to MaxCandLen characters.
PadLine == <<"/", "/">>
AnchorLine == <<"Wareneingang">>
SampleLines ==
    { AnchorLine,
      <<"2", "5", " ", "WARENEINGANG", " ">>,
      <<"1", "3", "1", "/", "2", "5">>,
      <<" ", "a", "TAB", "/", " ", "A", "BEL">>,
      <<"/", "1">>,
      <<" ", "TAB">> }
CandChars == {"1", "a", "/", " ", "BEL"}
SeqsUpTo(S, n) == UNION {[1..k -> S] : k \in 0..n}
Pad(n) == [i \in 1..n |-> PadLine]
Pages ==
    {Pad(n) \o b : n \in 0..MaxPad, b \in SeqsUpTo(SampleLines, MaxBody) \ {<<>>}}
        \cup {<<AnchorLine, c>> : c \in SeqsUpTo(CandChars, MaxCandLen)}

InitExtract ==
    /\ Fresh
    /\ kind = [f \in Files |-> "we"]
    /\ fx \in {[op |-> "page", page |-> p, out |-> <<>>] : p \in Pages}

\* DocumentProcessorManager.process_document asks can_handle(pdf_path)
CanHandleCall ==
    /\ fx.op = "page"
    /\ fx' = [op |-> "can_handle", page |-> fx.page, out |-> CanHandle(fx.page)]
    /\ UnchangedService

\* WareneingangProcessor.process, line 78
ExtractCall ==
    /\ fx.op = "page"
    /\ fx' = [op |-> "extract", page |-> fx.page, out |-> ExtractLieferscheinnummer(fx.page)]
    /\ UnchangedService

NextExtract ==
    \/ CanHandleCall
    \/ ExtractCall

SpecExtract == InitExtract /\ [][NextExtract]_vars

\* ====================================================== processor registry
\* DocumentProcessorManager.process_document over any list of processors.  A
\* processor is what its can_handle and its process do with the document.
CanOutcomes == {"yes", "no", "raise"}
ProcessOutcomes == {"true", "false", "raise"}
Processors == [can : CanOutcomes, process : ProcessOutcomes]

InitRegistry ==
    /\ Fresh
    /\ kind = [f \in Files |-> "we"]
    /\ fx \in {[op |-> "registry", procs |-> ps, i |-> 1, calls |-> {},
                done |-> FALSE, out |-> "none"] : ps \in SeqsUpTo(Processors, MaxProcs)}

\* A failure that leaves process_document.
OnRaisePropagate(st) == [st EXCEPT !.done = TRUE, !.out = "raised"]

\* lines 148-150: except Exception: log, continue
OnRaise(st) == [st EXCEPT !.i = @ + 1]

\* One round of the for loop of lines 136-150, or its end (lines 132-134, 152-153).
ProcessorStep ==
    /\ fx.op = "registry"
    /\ ~fx.done
    /\ IF fx.i > Len(fx.procs)
       THEN fx' = [fx EXCEPT !.done = TRUE, !.out = "false"]
       ELSE LET p == fx.procs[fx.i]
                asked == [fx EXCEPT !.calls = @ \cup {<<fx.i, "can_handle">>}]
                used == [asked EXCEPT !.calls = @ \cup {<<fx.i, "process">>}]
            IN IF p.can = "raise" THEN fx' = OnRaise(asked)
               ELSE IF p.can = "no" THEN fx' = [asked EXCEPT !.i = @ + 1]
               ELSE IF p.process = "raise" THEN fx' = OnRaise(used)
               ELSE IF p.process = "true"
                    THEN fx' = [used EXCEPT !.done = TRUE, !.out = "true"]
                    ELSE fx' = [used EXCEPT !.i = @ + 1]
    /\ UnchangedService

NextRegistry == ProcessorStep

SpecRegistry == InitRegistry /\ [][NextRegistry]_vars

\* ==================================================== reference-row match
\* WareneingangProcessor._import_csv_data over any reference table: a row is
\* its LIEFERSCHEINNR value ('' when the column is missing).
ValueChars == {"a", "A", " "}
Values == SeqsUpTo(ValueChars, MaxValLen)
\* Identifiers as the extraction returns them: valid, without whitespace.
Identifiers == {<<"a", "A", "a">>, <<"A", "a", "a">>}

InitCsv ==
    /\ Fresh
    /\ kind = [f \in Files |-> "we"]
    /\ fx \in {[op |-> "csv", rows |-> rs, nr |-> nr, out |-> {}] :
                  rs \in SeqsUpTo(Values, MaxRows), nr \in Identifiers}

\* A comparison that ignores the case of letters.
LowerStr(str) == [i \in 1..Len(str) |-> Lower(str[i])]
RowMatchesNoCase(value, nr) == LowerStr(Strip(value)) = LowerStr(nr)

\* lines 351-354: str(csv_row.get('LIEFERSCHEINNR', '')).strip() == lieferscheinnummer
RowMatches(value, nr) == Strip(value) = nr

\* lines 350-360: the rows imported for the identifier
ImportCsvData ==
    /\ fx.op = "csv"
    /\ fx' = [fx EXCEPT !.op = "imported",
                        !.out = {i \in 1..Len(fx.rows) : RowMatches(fx.rows[i], fx.nr)}]
    /\ UnchangedService

NextCsv == ImportCsvData

SpecCsv == InitCsv /\ [][NextCsv]_vars

\* =================================================== reference-row import
\* WareneingangProcessor._import_csv_data as a whole: the line items created
\* and the similar numbers reported.  A row is its LIEFERSCHEINNR value and
\* whether ChargenEinkaufRepository.create_from_csv_row can store it (it
\* returns None when the insert or the commit fails).
ImportNr == <<"1", "3", "1", "/", "2", "5">>
TableValues ==
    { ImportNr,
      <<"5", "1", "3", "1", "/", "2", "5">>,
      <<"1", "3", "1", " ">>,
      <<"2", "5">> }
TableRows ==
    {[nr |-> v, persists |-> TRUE] : v \in TableValues}
        \cup {[nr |-> ImportNr, persists |-> FALSE]}

\* a in b, for strings
IsInfix(a, b) == \E k \in 0..(Len(b) - Len(a)) : SubSeq(b, k + 1, k + Len(a)) = a

\* lines 363-365, for a row that is no exact match
IsSimilar(value, nr) ==
    LET v == Strip(value)
    IN v # <<>> /\ StrLen(v) >= 3 /\ (IsInfix(nr, v) \/ IsInfix(v, nr))

\* found_similar[:5], line 375
SimilarShown == 5

\* lines 344-378
ImportRows(rows, nr) ==
    LET exact == {i \in 1..Len(rows) : RowMatches(rows[i].nr, nr)}
        created == {i \in exact : rows[i].persists}
        import_count == Cardinality(created)
        stripped == [i \in 1..Len(rows) |-> Strip(rows[i].nr)]
        similar == {i \in 1..Len(rows) : i \notin exact /\ IsSimilar(rows[i].nr, nr)}
        shown == {i \in similar : Cardinality({j \in similar : j < i}) < SimilarShown}
    IN [created |-> created,
        import_count |-> import_count,
        reported |-> IF import_count > 0 THEN {} ELSE {stripped[i] : i \in shown}]

InitImport ==
    /\ Fresh
    /\ kind = [f \in Files |-> "we"]
    /\ fx \in {[op |-> "table", rows |-> rs, nr |-> ImportNr, out |-> <<>>] :
                  rs \in SeqsUpTo(TableRows, MaxTableRows)}

\* WareneingangProcessor.process, line 114
ImportCall ==
    /\ fx.op = "table"
    /\ fx' = [fx EXCEPT !.op = "import", !.out = ImportRows(fx.rows, fx.nr)]
    /\ UnchangedService

NextImport == ImportCall

SpecImport == InitImport /\ [][NextImport]_vars

\* ========================================================= reference files
\* WareneingangProcessor._load_single_csv.  A file is its lines, a line its
\* characters; csv.DictReader is modelled without quoting: a line is cut at
\* every delimiter.  Blank lines are skipped by the reader.
Delimiters == <<";", ",", "TAB", "|">>
MinColumns == 10

FirstIndexOf(line, d) == CHOOSE k \in 1..Len(line) : line[k] = d /\ \A j \in 1..(k - 1) : line[j] # d

RECURSIVE Split(_, _)
Split(line, d) ==
    IF \A k \in 1..Len(line) : line[k] # d THEN <<line>>
    ELSE <<SubSeq(line, 1, FirstIndexOf(line, d) - 1)>>
             \o Split(SubSeq(line, FirstIndexOf(line, d) + 1, Len(line)), d)

\* A row as csv.DictReader yields it: the values under the field names (a name
\* that occurs twice keeps its last value), restkey None holding the surplus
\* fields of a long row, restval None under the names a short row leaves out.
DictRow(names, cells) ==
    [keys |-> {names[i] : i \in 1..Len(names)},
     val |-> [n \in {names[i] : i \in 1..Len(names)} |->
                 LET last == CHOOSE i \in 1..Len(names) :
                                 names[i] = n /\ \A j \in 1..Len(names) : names[j] = n => j <= i
                 IN IF last <= Len(cells) THEN cells[last] ELSE <<>>],
     surplus |-> Len(cells) > Len(names),
     missing |-> Len(cells) < Len(names)]

\* len(first_row)
RowLen(row) == Cardinality(row.keys) + (IF row.surplus THEN 1 ELSE 0)

\* line 459: None has no strip()
CleanRaises(row) == row.surplus \/ row.missing

\* line 459: {key.strip(): value.strip() ...}
CleanedRow(row) ==
    [k \in {Strip(n) : n \in row.keys} |-> Strip(row.val[CHOOSE n \in row.keys : Strip(n) = k])]

\* The reader over the file with delimiter d: field names and rows.
FileLines(file) == SelectSeq(file.lines, NonEmpty)
ReaderRows(file, d) ==
    LET lines == FileLines(file)
        names == Split(lines[1], d)
    IN [j \in 1..(Len(lines) - 1) |-> DictRow(names, Split(lines[j + 1], d))]

\* lines 445-466 from the k-th delimiter on, csv_data being what was appended
\* so far: an exception inside the loop over the rows leaves the rows appended
\* before it in csv_data and goes on with the next delimiter.
RECURSIVE TryDelimiters(_, _, _)
TryDelimiters(file, k, csv_data) ==
    IF k > Len(Delimiters) THEN csv_data
    ELSE LET rows == ReaderRows(file, Delimiters[k])
             bad == {j \in 1..Len(rows) : CleanRaises(rows[j])}
             upto == IF bad = {} THEN Len(rows)
                     ELSE (CHOOSE j \in bad : \A i \in bad : j <= i) - 1
             appended == csv_data \o [j \in 1..upto |-> CleanedRow(rows[j])]
         IN IF Len(FileLines(file)) >= 2 /\ RowLen(rows[1]) > MinColumns
            THEN IF bad = {} THEN appended
                 ELSE TryDelimiters(file, k + 1, appended)
            ELSE TryDelimiters(file, k + 1, csv_data)

\* WareneingangProcessor._load_single_csv: a file that cannot be opened gives [].
LoadSingleCsv(file) ==
    IF ~file.readable \/ FileLines(file) = <<>> THEN <<>> ELSE TryDelimiters(file, 1, <<>>)

\* The files studied.  Column names as ChargenEinkaufRepository reads them.
Names == <<"LIEFERSCHEINNR", "ARTIKEL", "LINR", "LINAME", "NAME1", "BELFD",
           "TLNR", "AUART", "AFTNR", "APS", "ABSN", "ATNR">>

RECURSIVE JoinWith(_, _)
JoinWith(cells, d) ==
    IF Len(cells) = 0 THEN <<>>
    ELSE IF Len(cells) = 1 THEN cells[1]
    ELSE cells[1] \o <<d>> \o JoinWith(Tail(cells), d)

HeaderCells(n) == [i \in 1..n |-> IF i = 1 THEN <<" ", Names[i], " ">> ELSE <<Names[i]>>]
ValueCells(n) == [i \in 1..n |-> IF i = 1 THEN <<" ", "1", "3", "1", " ">> ELSE <<"a">>]
HeaderLines ==
    { JoinWith(HeaderCells(11), ";"),
      JoinWith(HeaderCells(11), ","),
      JoinWith(HeaderCells(10), ";"),
      JoinWith([i \in 1..11 |-> <<Names[i], ",", "a">>], ";"),
      JoinWith([i \in 1..11 |-> IF i = 11 THEN <<Names[2]>> ELSE <<Names[i]>>], ";") }
DataLines ==
    { JoinWith(ValueCells(11), ";"),
      JoinWith(ValueCells(11), ","),
      JoinWith(ValueCells(10), ";"),
      JoinWith(ValueCells(12), ";"),
      JoinWith(ValueCells(12), ","),
      JoinWith([i \in 1..11 |-> <<"1", ",", "a">>], ";") }
CsvFiles ==
    {[readable |-> TRUE, lines |-> <<h>> \o b] : h \in HeaderLines, b \in SeqsUpTo(DataLines, MaxDataLines)}
        \cup {[readable |-> FALSE, lines |-> <<>>]}

InitCsvFile ==
    /\ Fresh
    /\ kind = [f \in Files |-> "we"]
    /\ fx \in {[op |-> "file", file |-> c, out |-> <<>>] : c \in CsvFiles}

\* WareneingangProcessor._load_csv_files, line 405
LoadSingleCsvCall ==
    /\ fx.op = "file"
    /\ fx' = [fx EXCEPT !.op = "parsed", !.out = LoadSingleCsv(fx.file)]
    /\ UnchangedService

NextCsvFile == LoadSingleCsvCall

SpecCsvFile == InitCsvFile /\ [][NextCsvFile]_vars

\* ======================================================== reference table
\* WareneingangProcessor._load_csv_files and clear_cache over a directory that
\* others change.  fx holds the directory (CSV_LIST_DIR: absent, or its
\* listing), the cache, the table the last load returned and, as history, the
\* step taken last, the table of the first load since the cache was last empty
\* that found the directory, and the listing that load read.
GoodFileA == [readable |-> TRUE,
              lines |-> <<JoinWith(HeaderCells(11), ";"), JoinWith(ValueCells(11), ";")>>]
GoodFileB == [readable |-> TRUE,
              lines |-> <<JoinWith(HeaderCells(11), ","), JoinWith(ValueCells(11), ","),
                          JoinWith(ValueCells(11), ",")>>]
NoDelimiterFile == [readable |-> TRUE,
                    lines |-> <<JoinWith(HeaderCells(10), ";"), JoinWith(ValueCells(10), ";")>>]
UnreadableFile == [readable |-> FALSE, lines |-> <<>>]
DirEntries ==
    {[csv |-> TRUE, file |-> f] : f \in {GoodFileA, GoodFileB, NoDelimiterFile, UnreadableFile}}
        \cup {[csv |-> FALSE, file |-> GoodFileA]}
NoDir == [exists |-> FALSE, listing |-> <<>>]
Dirs == {NoDir} \cup {[exists |-> TRUE, listing |-> l] : l \in SeqsUpTo(DirEntries, MaxRefFiles)}

\* self._csv_cache = {}
NoCache == [filled |-> FALSE, data |-> <<>>, files_count |-> 0]

\* A load in which one file that gives no rows ends the load with nothing.
RECURSIVE ReadDirAllOrNothing(_, _, _)
ReadDirAllOrNothing(listing, all_csv_data, csv_files_found) ==
    IF listing = <<>>
    THEN [filled |-> TRUE, data |-> all_csv_data, files_count |-> csv_files_found]
    ELSE LET csv_data == LoadSingleCsv(Head(listing).file)
         IN IF Head(listing).csv /\ csv_data = <<>>
            THEN [filled |-> TRUE, data |-> <<>>, files_count |-> 0]
            ELSE IF Head(listing).csv
                 THEN ReadDirAllOrNothing(Tail(listing), all_csv_data \o csv_data,
                                          csv_files_found + 1)
                 ELSE ReadDirAllOrNothing(Tail(listing), all_csv_data, csv_files_found)

\* lines 398-416: the loop over the listing and the cache entry built from it
RECURSIVE ReadDir(_, _, _)
ReadDir(listing, all_csv_data, csv_files_found) ==
    IF listing = <<>>
    THEN [filled |-> TRUE, data |-> all_csv_data, files_count |-> csv_files_found]
    ELSE LET csv_data == LoadSingleCsv(Head(listing).file)
         IN IF Head(listing).csv /\ csv_data # <<>>
            THEN ReadDir(Tail(listing), all_csv_data \o csv_data, csv_files_found + 1)
            ELSE ReadDir(Tail(listing), all_csv_data, csv_files_found)

\* A cache that counts only when it holds rows.
CacheHitOnRows(cache) == cache.data # <<>>

\* line 390: if self._csv_cache
CacheHit(cache) == cache.filled

InitRefTable ==
    /\ Fresh
    /\ kind = [f \in Files |-> "we"]
    /\ fx \in {[op |-> "refdir", dir |-> d, cache |-> NoCache, out |-> <<>>,
                step |-> "none", served |-> NoCache, listed |-> <<>>] : d \in Dirs}

\* WareneingangProcessor._load_csv_files.  A directory that is absent (or
\* cannot be listed) gives [] and leaves the cache empty.
LoadCsvFiles ==
    /\ fx.op = "refdir"
    /\ LET read == ReadDir(fx.dir.listing, <<>>, 0)
           cache == IF CacheHit(fx.cache) \/ ~fx.dir.exists THEN fx.cache ELSE read
           out == IF CacheHit(fx.cache) THEN fx.cache.data
                  ELSE IF fx.dir.exists THEN read.data ELSE <<>>
           first == ~fx.served.filled /\ fx.dir.exists
       IN fx' = [fx EXCEPT !.cache = cache, !.out = out, !.step = "load",
                           !.served = IF first THEN [NoCache EXCEPT !.filled = TRUE, !.data = out]
                                      ELSE @,
                           !.listed = IF first THEN fx.dir.listing ELSE @]
    /\ UnchangedService

\* WareneingangProcessor.clear_cache
ClearCache ==
    /\ fx.op = "refdir"
    /\ fx' = [fx EXCEPT !.cache = NoCache, !.step = "clear", !.served = NoCache,
                        !.listed = <<>>]
    /\ UnchangedService

\* Reference files are added, changed or removed by others.
ChangeDir ==
    /\ fx.op = "refdir"
    /\ \E d \in Dirs \ {fx.dir} : fx' = [fx EXCEPT !.dir = d, !.step = "change"]
    /\ UnchangedService

NextRefTable ==
    \/ LoadCsvFiles
    \/ ClearCache
    \/ ChangeDir

SpecRefTable == InitRefTable /\ [][NextRefTable]_vars

\* ============================================================== relocation
\* WareneingangProcessor._move_document_to_category on its own.  fx.rel holds
\* what the call meets: whether the category is found in the database, where
\* the document row's pfad points (below the target directory or not) and
\* whether a file is there, whether some file already has the name computed
\* for the target, the sidecars next to the source, the number, the row's id,
\* the clock, and whether shutil.move and the update of the row work.
KeepInName(c) == IsAlnum(c) \/ c \in {"-", "_"}
\* A cleaning that turns each other character into '-'.
SanitizeDashed(nr) == [i \in 1..Len(nr) |-> IF KeepInName(nr[i]) THEN nr[i] ELSE "-"]

\* line 263
Sanitize(nr) == SelectSeq(nr, KeepInName)

Placeholder == <<"unbekannt">>

\* lines 261-265; None and '' are both false
SafeLieferscheinnummer(nr) ==
    IF nr = NoNr THEN Placeholder
    ELSE IF Sanitize(nr) = <<>> THEN Placeholder ELSE Sanitize(nr)

\* _get_category_path, line 306: PDF_PROCESSED_DIR / kategorie.lower() / unterkategorie.lower()
LowerName(name) ==
    IF name = "Lieferscheine" THEN "lieferscheine"
    ELSE IF name = "Lieferschein_extern" THEN "lieferschein_extern" ELSE name
CategoryPath(kategorie_name, unterkategorie_name) ==
    <<"processed", LowerName(kategorie_name), LowerName(unterkategorie_name)>>

\* lines 258-269: the target path, directory and parts of the file name
NeuerPfad(nr, timestamp, db_id) ==
    [dir |-> CategoryPath("Lieferscheine", "Lieferschein_extern"),
     prefix |-> "lief_ext_",
     nr |-> SafeLieferscheinnummer(nr),
     timestamp |-> timestamp,
     id |-> db_id,
     ext |-> ".pdf"]

\* A source that is gone counted as a failure.
SourceGoneFails == FALSE

\* line 245: return True
SourceGone == TRUE

\* What a call leaves behind: the value returned, whether shutil.move ran, the
\* file at the source, the file at the target ("free", "other": the file that
\* was there before, "doc": the document), the sidecars, and whether the row
\* has the new path and name.
Untouched(r, ret) ==
    [ret |-> ret, moved |-> FALSE, src_exists |-> r.src_exists,
     target |-> IF r.target_taken THEN "other" ELSE "free",
     markers |-> r.markers, row_updated |-> FALSE,
     neuer_pfad |-> NeuerPfad(r.nr, r.timestamp, r.id)]

\* lines 229-289
MoveDocumentToCategory(r) ==
    IF ~r.category THEN Untouched(r, FALSE)
    ELSE IF ~r.src_exists THEN Untouched(r, SourceGone)
    ELSE IF r.in_target THEN Untouched(r, TRUE)
    ELSE IF ~r.move_ok THEN Untouched(r, FALSE)
    ELSE [ret |-> TRUE, moved |-> TRUE, src_exists |-> FALSE, target |-> "doc",
          markers |-> {}, row_updated |-> r.update_ok,
          neuer_pfad |-> NeuerPfad(r.nr, r.timestamp, r.id)]

RelocNrs ==
    { NoNr,
      ImportNr,
      <<"/", " ", "/">>,
      <<"a", "-", "_", "A">>,
      <<"/", "1", "BEL">> }
Timestamps == {"010125_120000", "010125_120001"}
Relocations ==
    [category : BOOLEAN, src_exists : BOOLEAN, in_target : BOOLEAN,
     target_taken : BOOLEAN, move_ok : BOOLEAN, update_ok : BOOLEAN,
     markers : SUBSET Suffixes, nr : RelocNrs, id : 1..MaxDocs, timestamp : Timestamps]

InitRelocate ==
    /\ Fresh
    /\ kind = [f \in Files |-> "we"]
    /\ fx \in {[op |-> "relocate", rel |-> r, out |-> <<>>] : r \in Relocations}

\* WareneingangProcessor.process, lines 102 and 121
MoveCall ==
    /\ fx.op = "relocate"
    /\ fx' = [fx EXCEPT !.op = "relocated", !.out = MoveDocumentToCategory(fx.rel)]
    /\ UnchangedService

NextRelocate == MoveCall

SpecRelocate == InitRelocate /\ [][NextRelocate]_vars

\* ================================================= goods-receipt processing
\* WareneingangProcessor.process as a whole, from the number extracted to the
\* value returned.  fx.call holds what the call meets: the number extracted
\* (NoNr: none), whether the document row is found and can be categorised,
\* whether a delivery note with the number exists, whether one can be created,
\* the reference table, and what the relocation meets.
ProcessRelocations ==
    {r \in Relocations : /\ r.nr = ImportNr /\ ~r.target_taken /\ r.markers = Suffixes
                         /\ r.id = 1 /\ r.timestamp = "010125_120000"}
ProcessCalls ==
    [nr : {NoNr, ImportNr}, doc_found : BOOLEAN, categorized : BOOLEAN,
     existing : BOOLEAN, create_ok : BOOLEAN,
     rows : SeqsUpTo(TableRows, MaxRows), rel : ProcessRelocations]

\* return False before anything is written
ProcessFails(c) ==
    [ret |-> FALSE, created |-> FALSE, items |-> 0, csv_importiert |-> FALSE,
     relocation |-> FALSE, rel |-> Untouched(c.rel, FALSE)]

\* A process that gives up when no row was imported.
FinishProcessOnRows(c, csv_import_count) ==
    IF csv_import_count = 0
    THEN [ProcessFails(c) EXCEPT !.created = TRUE]
    ELSE [ret |-> TRUE, created |-> TRUE, items |-> csv_import_count,
          csv_importiert |-> TRUE,
          relocation |-> TRUE, rel |-> MoveDocumentToCategory(c.rel)]

\* lines 116-139: mark the note when rows were imported, relocate, return True
FinishProcess(c, csv_import_count) ==
    [ret |-> TRUE, created |-> TRUE, items |-> csv_import_count,
     csv_importiert |-> csv_import_count > 0,
     relocation |-> TRUE, rel |-> MoveDocumentToCategory(c.rel)]

\* lines 76-143
Process(c) ==
    IF c.nr = NoNr \/ ~c.doc_found \/ ~c.categorized THEN ProcessFails(c)
    ELSE IF c.existing
         THEN [ProcessFails(c) EXCEPT !.ret = TRUE, !.relocation = TRUE,
                                      !.rel = MoveDocumentToCategory(c.rel)]
         ELSE IF ~c.create_ok THEN ProcessFails(c)
              ELSE FinishProcess(c, ImportRows(c.rows, c.nr).import_count)

InitProcess ==
    /\ Fresh
    /\ kind = [f \in Files |-> "we"]
    /\ fx \in {[op |-> "call", call |-> c, out |-> <<>>] : c \in ProcessCalls}

\* DocumentProcessorManager.process_document, base_processor.py line 140
ProcessCall ==
    /\ fx.op = "call"
    /\ fx' = [fx EXCEPT !.op = "processed", !.out = Process(fx.call)]
    /\ UnchangedService

NextProcess == ProcessCall

SpecProcess == InitProcess /\ [][NextProcess]_vars

\* ========================================================== canonical names
\* The file names _move_document_to_category gives to the documents it moves,
\* character by character.  fx.moved holds the documents moved so far, each
\* with the id of its row, its number and the path it was moved to; fx.now is
\* the clock in seconds after 01.01.2025 12:00:00.  The id is the primary key
\* of the dokumente table: no two rows share one.
MaxMoved == 3        \* documents moved
MaxNow == 1          \* seconds the clock can advance

DigitChar(d) == <<"0", "1", "2", "3", "4", "5", "6", "7", "8", "9">>[d + 1]
\* str() of a non-negative integer
RECURSIVE Decimal(_)
Decimal(n) == IF n < 10 THEN <<DigitChar(n)>> ELSE Decimal(n \div 10) \o <<DigitChar(n % 10)>>

\* line 258: datetime.now().strftime("%d%m%y_%H%M%S")
Strftime(now) ==
    <<"0", "1", "0", "1", "2", "5", "_", "1", "2", "0", "0">>
        \o <<DigitChar(now \div 10), DigitChar(now % 10)>>

\* A file name without the id of the row.
NeuerDateinameNoId(nr, timestamp, db_id) ==
    <<"l", "i", "e", "f", "_", "e", "x", "t", "_">> \o SafeLieferscheinnummer(nr)
        \o <<"_">> \o timestamp \o <<".", "p", "d", "f">>

\* line 268: f"lief_ext_{safe_lieferscheinnummer}_{timestamp}_{db_id}.pdf"
NeuerDateiname(nr, timestamp, db_id) ==
    <<"l", "i", "e", "f", "_", "e", "x", "t", "_">> \o SafeLieferscheinnummer(nr)
        \o <<"_">> \o timestamp \o <<"_">> \o Decimal(db_id) \o <<".", "p", "d", "f">>

\* Numbers that meet in a name: two that are cleaned to the same string, and
\* one that ends like a name ends.
NameNrs ==
    { ImportNr,
      <<"1", "3", "1", "2", "5">>,
      <<"7">>,
      <<"7", "_">> \o Strftime(0) \o <<"_", "1">> }
NameIds == {1, 2, 11, 12}

InitNames ==
    /\ Fresh
    /\ kind = [f \in Files |-> "we"]
    /\ fx = [op |-> "names", moved |-> {}, now |-> 0]

\* lines 252-272 for one more document
MoveOne ==
    /\ fx.op = "names"
    /\ Cardinality(fx.moved) < MaxMoved
    /\ \E nr \in NameNrs, id \in NameIds \ {d.id : d \in fx.moved} :
          fx' = [fx EXCEPT !.moved = @ \cup
                    {[id |-> id, nr |-> nr, timestamp |-> Strftime(fx.now),
                      pfad |-> [dir |-> CategoryPath("Lieferscheine", "Lieferschein_extern"),
                                name |-> NeuerDateiname(nr, Strftime(fx.now), id)]]}]
    /\ UnchangedService

\* a second passes
Tick ==
    /\ fx.op = "names"
    /\ fx.now < MaxNow
    /\ fx' = [fx EXCEPT !.now = @ + 1]
    /\ UnchangedService

NextNames == MoveOne \/ Tick

SpecNames == InitNames /\ [][NextNames]_vars

\* ======================================================== blank-page test
\* The test _remove_blank_pages_pillow applies to one page.  A page is its
\* rendering (size and histogram of the grey levels 0..255) and its text
\* layer.  The text is a sequence of characters; a word that matters is one
\* token with the length of its spelling.
MaxFill == 11        \* punctuation characters in front of the words of a text

WhiteLevel == 250
GreyLevels == 0..255

WordLower(c) ==
    IF c = "Lieferschein" THEN "lieferschein"
    ELSE IF c = "BESTELLUNG" THEN "bestellung"
    ELSE IF c = "Artikel" THEN "artikel"
    ELSE Lower(c)
WordLen(c) ==
    IF c = "Lieferschein" THEN 12
    ELSE IF c = "BESTELLUNG" THEN 10
    ELSE IF c = "Artikel" THEN 7
    ELSE CharLen(c)
WordIsAlnum(c) == c \in {"Lieferschein", "BESTELLUNG", "Artikel"} \/ IsAlnum(c)

\* len(page_text)
RECURSIVE TextLen(_)
TextLen(str) == IF str = <<>> THEN 0 ELSE WordLen(Head(str)) + TextLen(Tail(str))

\* sum(histogram[from:])
RECURSIVE SumHistogram(_, _)
SumHistogram(histogram, from) ==
    IF from \notin GreyLevels THEN 0
    ELSE histogram[from] + SumHistogram(histogram, from + 1)

\* lines 374-378
TotalPixels(page) == page.size[1] * page.size[2]
WhitePixels(page) == SumHistogram(page.histogram, WhiteLevel)

\* A test that takes 98% white for blank.
PixelBasedBlankFrom98(page) == WhitePixels(page) * 100 >= 98 * TotalPixels(page)

\* line 381: white_ratio > 0.98
PixelBasedBlank(page) == WhitePixels(page) * 100 > 98 * TotalPixels(page)

\* line 393
MeaningfulText(page_text) ==
    TextLen(page_text) > 10 /\ \E i \in 1..Len(page_text) : WordIsAlnum(page_text[i])

\* lines 396-397
WareneingangKeywords == {"wareneingang", "lieferschein", "bestellung", "artikel"}
ContainsKeywords(page_text) ==
    \E i \in 1..Len(page_text) : WordLower(page_text[i]) \in WareneingangKeywords

\* lines 384-400: the text is looked at only when the pixels say blank
TextBasedBlank(page) ==
    IF PixelBasedBlank(page)
    THEN ~(MeaningfulText(Strip(page.text)) \/ ContainsKeywords(Strip(page.text)))
    ELSE TRUE

\* line 404
IsBlank(page) == PixelBasedBlank(page) /\ TextBasedBlank(page)

\* The renderings studied, 25 x 40 pixels: the share of each grey level used.
Histogram(black, grey249, grey250, white) ==
    [g \in GreyLevels |-> IF g = 0 THEN black
                          ELSE IF g = 249 THEN grey249
                          ELSE IF g = 250 THEN grey250
                          ELSE IF g = 255 THEN white ELSE 0]
Histograms ==
    { Histogram(200, 0, 0, 800),
      Histogram(20, 0, 0, 980),
      Histogram(19, 0, 1, 980),
      Histogram(10, 0, 0, 990),
      Histogram(0, 0, 0, 1000),
      Histogram(0, 30, 970, 0),
      Histogram(0, 10, 990, 0),
      Histogram(0, 990, 10, 0) }
\* The texts studied: blanks, up to MaxFill punctuation characters, up to two
\* of a few words and characters, blanks.
TextWords == {"a", "1", "/", " ", "Artikel", "BESTELLUNG", "Lieferschein", "Wareneingang"}
Fill(n) == [i \in 1..n |-> "/"]
PageTexts ==
    {lead \o Fill(n) \o w \o trail :
        lead \in {<<>>, <<" ", "TAB">>}, n \in 0..MaxFill,
        w \in SeqsUpTo(TextWords, 2), trail \in {<<>>, <<" ", " ", " ">>}}
BlankPages == [size : {<<25, 40>>}, histogram : Histograms, text : PageTexts]

InitBlankPage ==
    /\ Fresh
    /\ kind = [f \in Files |-> "we"]
    /\ fx \in {[op |-> "blank_page", page |-> p, out |-> FALSE] : p \in BlankPages}

\* lines 363-410 for one page
IsBlankCall ==
    /\ fx.op = "blank_page"
    /\ fx' = [fx EXCEPT !.op = "blank_tested", !.out = IsBlank(fx.page)]
    /\ UnchangedService

NextBlankPage == IsBlankCall

SpecBlankPage == InitBlankPage /\ [][NextBlankPage]_vars

\* ======================================================== blank-page filter
\* _remove_blank_pages_pillow on one file.  fx.file is the document at the
\* path, a sequence of pages; fx.fail names the step that raises in this call
\* ("none": no step does).  The result says what is at the path afterwards
\* ("original": the bytes as they were, "filtered": the document without its
\* blank pages, "damaged": a copy that broke off), whether the path was
\* written, and whether the temporary file is still there.
MaxPages == 3        \* pages of a document

\* fitz.open, the rendering and test of a page, delete_page, NamedTemporaryFile,
\* doc.save, doc.close, and shutil.move: a rename within one file system, a
\* copy over the target and removal of the source across two.
FailSteps == {"none", "open", "analysis", "delete", "tempfile", "save", "close",
              "rename", "copy"}

\* line 363-407
PagesToRemove(file) == {page_num \in 1..Len(file) : IsBlank(file[page_num])}
\* lines 418-420: the document without the pages removed
RECURSIVE Kept(_)
Kept(file) ==
    IF file = <<>> THEN <<>>
    ELSE IF IsBlank(Head(file)) THEN Kept(Tail(file)) ELSE <<Head(file)>> \o Kept(Tail(file))

\* return False with nothing written
FilterLeaves(file) ==
    [ret |-> FALSE, at_path |-> "original", pages |-> file, written |-> FALSE,
     temp |-> FALSE]

\* A failed save that leaves the temporary file where it is.
SaveFailedKeepsTemp(file) == [FilterLeaves(file) EXCEPT !.temp = TRUE]

\* lines 438-442: the temporary file is removed
SaveFailed(file) == FilterLeaves(file)

\* lines 347-456.  A document cannot lose all its pages: PyMuPDF refuses to
\* delete them or to save the empty document.
RemoveBlankPagesPillow(file, fail) ==
    IF fail = "open" THEN FilterLeaves(file)
    ELSE IF fail = "analysis" /\ file # <<>> THEN FilterLeaves(file)
    ELSE IF PagesToRemove(file) = {} THEN FilterLeaves(file)
    ELSE IF fail = "delete" \/ fail = "tempfile" THEN FilterLeaves(file)
    ELSE IF fail = "save" \/ fail = "close" \/ Kept(file) = <<>> THEN SaveFailed(file)
    ELSE IF fail = "rename" THEN SaveFailed(file)
    ELSE IF fail = "copy"
         THEN [SaveFailed(file) EXCEPT !.at_path = "damaged", !.written = TRUE]
         ELSE [ret |-> TRUE, at_path |-> "filtered", pages |-> Kept(file),
               written |-> TRUE, temp |-> FALSE]

\* A page that looks and is empty, one that looks empty and carries a keyword,
\* and one with content.
EmptyPage == [size |-> <<25, 40>>, histogram |-> Histogram(10, 0, 0, 990), text |-> <<" ">>]
FaintPage == [size |-> <<25, 40>>, histogram |-> Histogram(10, 0, 0, 990),
              text |-> <<"Wareneingang">>]
FullPage == [size |-> <<25, 40>>, histogram |-> Histogram(200, 0, 0, 800), text |-> <<"a">>]
Documents == SeqsUpTo({EmptyPage, FaintPage, FullPage}, MaxPages)

InitBlankFile ==
    /\ Fresh
    /\ kind = [f \in Files |-> "we"]
    /\ fx \in {[op |-> "blank_file", file |-> d, fail |-> s, out |-> <<>>] :
                  d \in Documents, s \in FailSteps}

\* ocr_scheduler.py line 213
RemoveBlankPagesCall ==
    /\ fx.op = "blank_file"
    /\ fx' = [fx EXCEPT !.op = "blank_filtered",
                        !.out = RemoveBlankPagesPillow(fx.file, fx.fail)]
    /\ UnchangedService

NextBlankFile == RemoveBlankPagesCall

SpecBlankFile == InitBlankFile /\ [][NextBlankFile]_vars

\* ========================================================= path resolution
\* _find_current_file_path with the names as they are written.  fx.disk is
\* the set of paths at which a file lies (a path is a directory and a name),
\* fx.row the row of the document; the file is first moved by the goods-receipt
\* processor and then looked for under the name it came in with.
StartsWith(str, prefix) ==
    Len(prefix) <= Len(str) /\ SubSeq(str, 1, Len(prefix)) = prefix
EndsWith(str, suffix) ==
    Len(suffix) <= Len(str)
        /\ SubSeq(str, Len(str) - Len(suffix) + 1, Len(str)) = suffix

InputPath(filename) == [dir |-> <<"input">>, name |-> filename]
InProcessedDir(path) == path.dir # <<>> /\ Head(path.dir) = "processed"

\* line 305
WalkMatches(file, filename) ==
    \/ file = filename
    \/ /\ StartsWith(file, <<"l", "i", "e", "f", "_", "e", "x", "t", "_">>)
       /\ EndsWith(file, <<"_">> \o filename)

\* line 295: dok_dict["dateiname"] == filename
RowMatchesFilename(row, filename) == row.dateiname = filename

\* return None
NotFound == [dir |-> <<>>, name |-> <<>>]

\* lines 285-315
FindCurrentFilePathOf(filename, disk, row) ==
    IF InputPath(filename) \in disk THEN InputPath(filename)
    ELSE IF RowMatchesFilename(row, filename) /\ row.pfad \in disk THEN row.pfad
    ELSE IF \E p \in disk : InProcessedDir(p) /\ WalkMatches(p.name, filename)
         THEN CHOOSE p \in disk : InProcessedDir(p) /\ WalkMatches(p.name, filename)
         ELSE NotFound

IntakeNames ==
    { <<"s", "c", "a", "n", ".", "p", "d", "f">>,
      <<"1", ".", "p", "d", "f">>,
      <<"1", "1", ".", "p", "d", "f">>,
      <<"l", "i", "e", "f", "_", "e", "x", "t", "_", "1", ".", "p", "d", "f">> }

InitResolve ==
    /\ Fresh
    /\ kind = [f \in Files |-> "we"]
    /\ fx \in {[op |-> "intake", filename |-> n, nr |-> nr, now |-> s,
                disk |-> {InputPath(n)},
                row |-> [id |-> id, dateiname |-> n, pfad |-> InputPath(n)],
                relocated |-> FALSE, row_updated |-> FALSE, found |-> NotFound] :
                  n \in IntakeNames, nr \in NameNrs, s \in 0..MaxNow, id \in NameIds}

\* wareneingang_processor.py lines 267-282: move the file, update the row
\* (update_pfad_und_dateiname may fail and its result is not looked at)
RelocateFile ==
    /\ fx.op = "intake" /\ ~fx.relocated
    /\ LET neuer_pfad ==
               [dir |-> CategoryPath("Lieferscheine", "Lieferschein_extern"),
                name |-> NeuerDateiname(fx.nr, Strftime(fx.now), fx.row.id)]
       IN \E update_ok \in BOOLEAN :
             fx' = [fx EXCEPT !.disk = {neuer_pfad},
                              !.relocated = TRUE,
                              !.row_updated = update_ok,
                              !.row = IF update_ok
                                      THEN [@ EXCEPT !.dateiname = neuer_pfad.name,
                                                     !.pfad = neuer_pfad]
                                      ELSE @]
    /\ UnchangedService

\* ocr_scheduler.py lines 181, 210, 219, 229
FindCurrentFilePathCall ==
    /\ fx.op = "intake"
    /\ fx' = [fx EXCEPT !.op = "resolved",
                        !.found = FindCurrentFilePathOf(fx.filename, fx.disk, fx.row)]
    /\ UnchangedService

NextResolve == RelocateFile \/ FindCurrentFilePathCall

SpecResolve == InitResolve /\ [][NextResolve]_vars

\* ================================================================ progress
\* The service that is started (main.py, lifespan) and keeps running: the
\* polling loop and manual triggers; nobody stops it, it does not crash and
\* nobody else touches the intake directory.  The event loop runs every ready
\* coroutine and every worker thread ends; the OCR engine does not fail for
\* ever.
OcrSucceeds(t) == OcrThread(t) /\ tasks'[t].res

NextLive ==
    \/ Start
    \/ ForceCheck
    \/ \E t \in Tasks : TaskStep(t)

Fairness ==
    /\ WF_vars(Start)
    /\ \A t \in Tasks : SF_vars(TaskStep(t)) /\ SF_vars(OcrSucceeds(t))

SpecLive == Init /\ [][NextLive]_vars /\ Fairness

\* ================================================================== claims
\* Program counters of a pass that is working on its current file.
PassPcs == {"file", "ocr_wait", "ocr_ret", "blank_q", "blank_wait", "blank_ret",
            "reg_q", "prev_wait", "prev_ret", "doc_q", "doc_proc", "doc_move",
            "doc_mark", "fin"}
\* Tasks with a stage attempt in flight for file f.
Attempts(f) == {t \in Tasks : tasks[t].cur = f /\ tasks[t].pc \in PassPcs}
\* Tasks with an offloaded OCR thread running for file f.
OcrInFlight(f) == {t \in Tasks : tasks[t].cur = f /\ tasks[t].pc = "ocr_wait"}

\* C1: for every interleaving of the polling loop and ForceCheck() calls, at
\* most one stage attempt, and at most one offloaded OCR task, is in flight
\* for a given intake file.
C1_OneAttemptPerFile ==
    \A f \in Files : Cardinality(Attempts(f)) <= 1 /\ Cardinality(OcrInFlight(f)) <= 1

\* C2: Start() while the scheduler is running is a no-op (it changes neither the
\* running flag, nor the processed-file set, nor the tasks), and after any
\* sequence of Start()/Stop() calls at most one polling loop task exists: the
\* one OCRScheduler._task refers to while running, none while stopped.
C2_StartIdempotent ==
    /\ [](/\ Cardinality(LoopTasks) <= 1
          /\ (running => LoopTasks = {taskRef})
          /\ (~running => LoopTasks = {}))
    /\ [][(Start /\ running) =>
            UNCHANGED <<running, processed_files, taskRef, tasks>>]_vars

\* C2 witness: the scheduler was started, stopped and started again, and one
\* polling loop exists.
C2_Witness == running /\ stops > 0 /\ LoopTasks = {taskRef}

\* C3: once Stop() has returned, no stage operation started by the scheduler is
\* still running: no worker thread is left behind and no task is inside a stage.
C3_StopWaitsForStage ==
    ~running => (orphans = {} /\ \A t \in Tasks : tasks[t].pc \notin ThreadPcs)

\* The stage a program counter belongs to (0: before the first stage, 5: after
\* the last).
Rank(pc) ==
    IF pc = "file" THEN 0
    ELSE IF pc \in {"ocr_wait", "ocr_ret"} THEN 1
    ELSE IF pc \in {"blank_q", "blank_wait", "blank_ret"} THEN 2
    ELSE IF pc \in {"reg_q", "prev_wait", "prev_ret"} THEN 3
    ELSE IF pc \in {"doc_q", "doc_proc", "doc_move", "doc_mark"} THEN 4
    ELSE 5

\* C4: within one pass over a file the stages run in the order OCR, blank-page
\* filter, registration, document processing (a pass never goes back to an
\* earlier stage of its file), and document processing never runs for a file
\* whose OCR stage has not completed.
C4_StageOrder ==
    /\ [](\A t \in Tasks :
             tasks[t].pc \in {"doc_proc", "doc_move"} => <<tasks[t].cur, "ocr">> \in ran)
    /\ [][\A t \in Tasks :
             (tasks[t].pc \in PassPcs /\ tasks'[t].pc \in PassPcs
                                      /\ tasks'[t].kind = tasks[t].kind)
             => /\ tasks'[t].cur = tasks[t].cur
                /\ Rank(tasks'[t].pc) >= Rank(tasks[t].pc)]_vars

\* C4 witness: document processing runs for a file that went through OCR,
\* blank-page filtering and registration.
C4_Witness ==
    \E t \in Tasks :
        /\ tasks[t].pc = "doc_proc"
        /\ {<<tasks[t].cur, "ocr">>, <<tasks[t].cur, "blank">>,
            <<tasks[t].cur, "register">>} \subseteq ran

\* Program counters at which a stage has been started, and that stage.
StartedPcs == {"ocr_wait", "blank_wait", "prev_wait", "doc_proc"}
StartedStage(pc) == Stages[Rank(pc)]

\* What durably records that a stage of a file is complete: the OCR marker, the
\* document row, the document-processing marker; for the blank-page filter a
\* sidecar of its own, which nothing ever writes.
StageRecorded(f, s) ==
    IF s = "ocr" THEN OcrDone(f)
    ELSE IF s = "blank" THEN \E m \in markers : m[1] = f /\ m[2] \notin Suffixes
    ELSE IF s = "register" THEN \E i \in DocIds : docs[i].name = f
    ELSE DocProcessingDone(f)

\* C5: in every reachable state where a stage of a file has been started, the
\* completion of every earlier stage that succeeded for that file is durably
\* recorded.
C5_MarkerBeforeNextStage ==
    \A t \in Tasks :
        tasks[t].pc \in StartedPcs =>
            \A i \in 1..Len(Stages) :
                (i < Rank(tasks[t].pc) /\ <<tasks[t].cur, Stages[i]>> \in ran)
                    => StageRecorded(tasks[t].cur, Stages[i])

\* The process died after the OCR marker of f was written and before the
\* blank-page filter ran for f.
ResumeCase(f) == "ocr_marker" \in doneAtCrash[f] /\ "blank" \notin doneAtCrash[f]

\* C6: after a crash that came when the OCR marker of a file was written and its
\* blank-page filtering had not run, no later pass executes OCR for that file,
\* and a pass that gets beyond the blank-page stage has run the filter (unless
\* the file left the intake directory meanwhile).
C6_ResumeAtBlank ==
    \A f \in Files : ResumeCase(f) =>
        \A t \in Tasks : tasks[t].cur = f =>
            /\ tasks[t].pc \notin {"ocr_wait", "ocr_ret"}
            /\ (tasks[t].pc \in PassPcs /\ Rank(tasks[t].pc) > 2)
                  => (<<f, "blank">> \in ran \/ f \notin inIntake)

\* C6 witness: after such a crash the blank-page filter runs for the file.
C6_Witness ==
    \E f \in Files, t \in Tasks :
        ResumeCase(f) /\ tasks[t].cur = f /\ tasks[t].pc = "blank_wait"

\* C7: once a pass over a file has run to its end, no later poll (in the same
\* process or after a restart) selects the file or starts a pass on it, so no
\* stage runs for it again; reference rows are imported once per delivery note.
C7_SecondRunNoOp ==
    /\ \A f \in passDone : \A t \in Tasks :
          /\ f \notin tasks[t].todo
          /\ (tasks[t].cur = f => tasks[t].pc = "next")
    /\ \A n \in Nrs : lieferscheine[n] <= 1 /\ chargen[n] <= RefMatches(n)

\* C7 witness: after a restart the scheduler runs again and a fully processed
\* file still lies in the intake directory.
C7_Witness ==
    \E f \in passDone : crashes > 0 /\ running /\ f \in inIntake /\ f \in processed_files

\* C8: after a crash and restart no stage that had completed for a file before
\* the crash is executed a second time.
C8_NoStageRepeated ==
    \A t \in Tasks :
        tasks[t].pc \in StartedPcs => StartedStage(tasks[t].pc) \notin doneAtCrash[tasks[t].cur]

\* A step of task t itself (not its cancellation, not a crash) taken where the
\* file of the pass cannot be located.
NotFoundStep(t) ==
    /\ tasks[t].pc \in {"file", "doc_q"}
    /\ tasks[t].pc = "doc_q" => ~DocProcessingDone(tasks[t].cur)
    /\ FindCurrentFilePath(tasks[t].cur) = NoPath
    /\ tasks'[t] # tasks[t]
    /\ tasks'[t].kind = tasks[t].kind

\* C9 as claimed: a stage attempt that cannot locate its file, document
\* processing included, is abandoned without recording the stage as complete
\* and leaves the file to be attempted again.
C9_NotFoundRetried ==
    [][\A t \in Tasks : NotFoundStep(t) =>
          /\ tasks'[t].pc = "next"
          /\ markers' = markers
          /\ processed_files' = processed_files]_vars

\* C9 as amended: a file that cannot be located at the start of its pass ends
\* the pass with nothing recorded; a file that cannot be located when document
\* processing is about to run gets the document-processing marker and enters
\* the processed set, and is not attempted again.
C9_NotFoundHandling ==
    [][\A t \in Tasks : NotFoundStep(t) =>
          /\ tasks'[t].pc = "next"
          /\ docs' = docs
          /\ IF tasks[t].pc = "file"
             THEN markers' = markers /\ processed_files' = processed_files
             ELSE /\ markers' = markers \cup {<<tasks[t].cur, DocSuffix>>}
                  /\ processed_files' = processed_files \cup {tasks[t].cur}]_vars

\* C9 witness: a pass ended with the document-processing marker written for a
\* file that had vanished, document processing never having run for it.
C9_Witness ==
    \E t \in Tasks :
        /\ tasks[t].pc = "next" /\ tasks[t].cur \in Files
        /\ DocProcessingDone(tasks[t].cur)
        /\ tasks[t].cur \in processed_files
        /\ tasks[t].cur \notin inIntake
        /\ <<tasks[t].cur, "doc">> \notin ran

\* C10: when OCR fails for a file, the pass ends there: the OCR marker stays
\* unset, no later stage is attempted, no marker, record or file is altered,
\* the file does not enter the processed set, and (still lying in the intake
\* directory) it is selected by the next poll.
C10_OcrFailure ==
    [][\A t \in Tasks :
          (/\ tasks[t].pc = "ocr_ret" /\ ~tasks[t].res
           /\ tasks'[t] # tasks[t] /\ tasks'[t].kind = tasks[t].kind)
          => /\ tasks'[t].pc = "next"
             /\ UNCHANGED <<markers, docs, lieferscheine, chargen, processed_files,
                            inIntake, processedTree>>
             /\ (tasks[t].cur \in inIntake /\ tasks[t].cur \notin processed_files
                    /\ ~OcrDone(tasks[t].cur))
                   => tasks[t].cur \in FilesToProcess']_vars

\* C10 witness: a pass has ended on a file that still lies in the intake
\* directory without OCR marker and is due again.
C10_Witness ==
    \E t \in Tasks :
        /\ tasks[t].pc = "next" /\ tasks[t].cur \in inIntake
        /\ ~OcrDone(tasks[t].cur)
        /\ tasks[t].cur \in FilesToProcess

\* A step of task t itself out of the writing of the document-processing marker,
\* taken after document processing failed for a goods receipt: the processor
\* reported failure or raised (res is FALSE), or the reference data could not
\* be read (the delivery note exists without its line items).
DocFailed(t) ==
    /\ tasks[t].pc = "doc_mark"
    /\ tasks[t].cur \in Files
    /\ kind[tasks[t].cur] = "we"
    /\ ~tasks[t].res \/ chargen[NrOf(tasks[t].cur)] < RefMatches(NrOf(tasks[t].cur))
    /\ tasks'[t] # tasks[t]
    /\ tasks'[t].kind = tasks[t].kind

\* C11 as claimed: when document processing fails for a file, the
\* document-processing marker is left unset (so that the next poll retries).
C11_DocFailureRetried ==
    [][\A t \in Tasks : DocFailed(t) => ~DocProcessingDone(tasks[t].cur)']_vars

\* C11 as amended: when document processing fails for a file, the
\* document-processing marker is written all the same and the pass goes on to
\* its end, where the file enters the processed set; the stage is not retried.
C11_DocFailureMarked ==
    /\ [][\A t \in Tasks : DocFailed(t) =>
             /\ DocProcessingDone(tasks[t].cur)'
             /\ tasks'[t].pc = "fin"
             /\ tasks'[t].cur = tasks[t].cur]_vars
    /\ [][\A t \in Tasks :
             (tasks[t].pc = "fin" /\ tasks'[t] # tasks[t] /\ tasks'[t].kind = tasks[t].kind)
                => /\ tasks[t].cur \in processed_files'
                   /\ tasks[t].cur \notin FilesToProcess']_vars

\* C11 witness: a pass has ended on a goods receipt whose processing failed:
\* the marker lies there, the file is in the processed set and still in the
\* intake directory, no delivery note exists for it.
C11_Witness ==
    \E f \in passDone :
        /\ kind[f] = "we" /\ f \in inIntake /\ f \in processed_files
        /\ DocProcessingDone(f)
        /\ <<f, "doc">> \in ran
        /\ lieferscheine[NrOf(f)] = 0

\* All stages the selection looks at are complete for f: the OCR marker, the
\* document row, the document-processing marker.
StagesComplete(f) == OcrDone(f) /\ IsFileInDatabase(f) /\ DocProcessingDone(f)

\* Some task is about to run a poll.
PollCanRun ==
    /\ LoopFree
    /\ \E t \in Tasks : tasks[t].pc = "ready" /\ (tasks[t].kind = "loop" => running)

\* C12 as claimed: a poll skips an intake file if and only if all its stages
\* are complete.
C12_SkipIffComplete ==
    PollCanRun => \A f \in inIntake : (f \notin FilesToProcess) <=> StagesComplete(f)

\* C12 as amended: a poll selects exactly the intake files that are not in the
\* processed set and have an incomplete stage; a file whose pass ran to its end
\* is in the processed set and is skipped by every later poll of the process,
\* whether or not its stages are complete.
C12_SkipProcessedOrComplete ==
    /\ [][\A t \in Tasks :
             (tasks[t].pc = "ready" /\ tasks'[t].pc = "next")
                => tasks'[t].todo =
                      {f \in inIntake : f \notin processed_files /\ ~StagesComplete(f)}]_vars
    /\ [](\A f \in passDone : f \in processed_files /\ f \notin FilesToProcess)

\* C12 witness: a poll is about to run and skips a file of the intake directory
\* that has no document row.
C12_Witness ==
    /\ PollCanRun
    /\ \E f \in inIntake : f \in processed_files /\ ~StagesComplete(f)

\* The file f has been relocated: its document row points into the processed
\* tree and the file is gone from the intake directory.
Relocated(f) ==
    /\ f \notin inIntake
    /\ \E i \in DocIds : docs[i].name = f /\ docs[i].renamed /\ i \in processedTree

\* No task is working on f.
NoPassOn(f) == \A t \in Tasks : ~(tasks[t].cur = f /\ tasks[t].pc \in PassPcs)

\* C13: once the relocation of a file has succeeded and its pass has finished, no
\* marker of the file is left in the intake directory.
C13_NoStaleSidecar ==
    \A f \in passDone :
        (Relocated(f) /\ NoPassOn(f)) => \A m \in markers : m[1] # f

\* The recognized lines the extraction reads, the first line with the keyword
\* among them (0 when there is none) and the line after it.
ExtractLines == ExtractTextFromPdf(fx.page, ExtractMaxLines)
FirstAnchor ==
    IF \E i \in 1..Len(ExtractLines) : HasAnchor(ExtractLines[i])
    THEN CHOOSE i \in 1..Len(ExtractLines) :
            HasAnchor(ExtractLines[i]) /\ \A j \in 1..(i - 1) : ~HasAnchor(ExtractLines[j])
    ELSE 0
HasCandidate == FirstAnchor > 0 /\ FirstAnchor < Len(ExtractLines)
Candidate == ExtractLines[FirstAnchor + 1]

\* C16: only the first line with the keyword counts: when the line after it is
\* rejected, or there is none, the extraction yields no identifier, whatever
\* lines with the keyword follow.
C16_FirstAnchorOnly ==
    (fx.op = "extract" /\ FirstAnchor > 0 /\ (~HasCandidate \/ ~ValidNr(Clean(Candidate))))
        => fx.out = NoNr

\* The candidate without its whitespace and its non-printable characters.
Cleaned == SelectSeq(Candidate, LAMBDA c : c \notin Spaces /\ c \notin Unprintable)
Accepted == StrLen(Cleaned) >= 3 /\ \E i \in 1..Len(Cleaned) : Cleaned[i] \in Alnums

\* C17: the cleaning removes the whitespace and the non-printable characters of
\* the candidate line and nothing else; the cleaned candidate is returned if
\* and only if it has at least 3 characters, one of them alphanumeric, and
\* otherwise the extraction yields no identifier.
C17_CleanAndAccept ==
    (fx.op = "extract" /\ HasCandidate)
        => fx.out = IF Accepted THEN Cleaned ELSE NoNr

\* C18: can_handle says yes if and only if the keyword occurs, in any spelling,
\* in one of the first 30 recognized lines, the lines the extraction reads.
C18_SameLineBudget ==
    fx.op = "can_handle" => (fx.out <=> FirstAnchor > 0)

\* The first processor of the list whose can_handle says yes (0: none).
FirstClaimant ==
    IF \E i \in 1..Len(fx.procs) : fx.procs[i].can = "yes"
    THEN CHOOSE i \in 1..Len(fx.procs) :
            fx.procs[i].can = "yes" /\ \A j \in 1..(i - 1) : fx.procs[j].can # "yes"
    ELSE 0

\* C14: the first processor whose can_handle says yes is the only one whose
\* process is called; its result is the result of the registry, and no later
\* processor is consulted, also when that result is false.
C14_FirstMatchWins ==
    (fx.op = "registry" /\ fx.done /\ FirstClaimant > 0
        /\ fx.procs[FirstClaimant].process # "raise")
    => /\ fx.out = fx.procs[FirstClaimant].process
       /\ \A c \in fx.calls : c[1] <= FirstClaimant

\* The processor at position i raises when the registry consults it.
Raises(i) ==
    \/ fx.procs[i].can = "raise"
    \/ fx.procs[i].can = "yes" /\ fx.procs[i].process = "raise"

\* C15: a processor that raises in can_handle or in process counts as not
\* having handled the document: the registry goes on to the next processor,
\* and its own result is true or false, never the failure.
C15_RaiseIsCaught ==
    /\ [](fx.op = "registry" => fx.out \in {"none", "true", "false"})
    /\ [][(fx.op = "registry" /\ ~fx.done /\ fx.i <= Len(fx.procs) /\ Raises(fx.i))
             => (fx'.i = fx.i + 1 /\ ~fx'.done /\ fx'.out = "none")]_vars
    /\ [](fx.op = "registry" /\ fx.done =>
             \A j \in 1..Len(fx.procs) :
                 (\A k \in 1..(j - 1) : Raises(k)) => <<j, "can_handle">> \in fx.calls)

\* C15 witness: a processor raised, a later one was given the document and
\* handled it.
C15_Witness ==
    /\ fx.op = "registry" /\ fx.done /\ fx.out = "true"
    /\ \E j \in 1..Len(fx.procs) :
          /\ Raises(j)
          /\ \E k \in (j + 1)..Len(fx.procs) : <<k, "process">> \in fx.calls

\* Files whose pass ran to its end and that no processor claimed.
Unclaimed == {f \in passDone : kind[f] = "other"}

\* C19 as claimed: a file no processor claims stays in the intake directory and
\* has no document-processing marker after its pass.
C19_NoDocMarker ==
    \A f \in Unclaimed : f \in inIntake /\ ~DocProcessingDone(f)

\* C19 as amended: a file no processor claims stays in the intake directory,
\* its document processing creates no delivery note and no line item and moves
\* nothing, and the document-processing marker is written for it; after the
\* pass its markers are the OCR marker and the document-processing marker.
C19_UnclaimedIsMarked ==
    /\ [][\A t \in Tasks :
             (/\ tasks[t].pc \in {"doc_proc", "doc_mark"}
              /\ kind[tasks[t].cur] = "other"
              /\ tasks'[t] # tasks[t] /\ tasks'[t].kind = tasks[t].kind)
             => /\ UNCHANGED <<inIntake, processedTree, docs, lieferscheine, chargen>>
                /\ tasks[t].pc = "doc_mark" => DocProcessingDone(tasks[t].cur)']_vars
    /\ [](\A f \in Unclaimed :
             /\ f \in inIntake
             /\ {m \in markers : m[1] = f} = {<<f, OcrSuffix>>, <<f, DocSuffix>>})

\* C19 witness: the pass over a file no processor claimed has ended, document
\* processing having been offered the file.
C19_Witness ==
    \E f \in Unclaimed :
        /\ <<f, "doc">> \in ran
        /\ f \in inIntake /\ f \in processed_files
        /\ DocProcessingDone(f)
        /\ \A t \in Tasks : tasks[t].cur # f

\* The value is the identifier, character by character and in the same case,
\* with nothing but whitespace before and after it.
IsPadded(value, nr) ==
    \E a \in 0..Len(value) :
        /\ a + Len(nr) <= Len(value)
        /\ \A i \in 1..Len(value) :
              IF i <= a \/ i > a + Len(nr) THEN value[i] \in Spaces
              ELSE value[i] = nr[i - a]

\* C20: the rows matched are exactly the rows whose identifier value, trimmed of
\* surrounding whitespace, equals the identifier in the same case: a value with
\* a further character before or after the identifier, or in another case,
\* never matches.
C20_ExactMatch ==
    fx.op = "imported" =>
        \A i \in 1..Len(fx.rows) :
            /\ (i \in fx.out) <=> IsPadded(fx.rows[i], fx.nr)
            /\ fx.rows[i] \in {<<"a">> \o fx.nr, fx.nr \o <<"A">>, LowerStr(fx.nr)} \ {fx.nr}
                  => i \notin fx.out

\* C20 witness: a row whose value is the identifier followed by a blank was
\* matched.
C20_Witness ==
    /\ fx.op = "imported"
    /\ \E i \in fx.out : fx.rows[i] = fx.nr \o <<" ">>

\* ---------------------------------------------------------------------------
\* C21: only exact-matching rows become line items: the line items created are
\* the exact-matching rows that could be stored, a row that is only similar is
\* never imported, and similar numbers are reported only when no row matches
\* exactly, and then at most SimilarShown of them.
ExactRows == {i \in 1..Len(fx.rows) : Strip(fx.rows[i].nr) = fx.nr}
C21_OnlyExactImported ==
    fx.op = "import" =>
        /\ fx.out.created = {i \in ExactRows : fx.rows[i].persists}
        /\ fx.out.import_count = Cardinality(fx.out.created)
        /\ (fx.out.reported # {} => ExactRows = {})
        /\ Cardinality(fx.out.reported) <= SimilarShown

\* ---------------------------------------------------------------------------
\* C24: a reference file is parsed as a whole with the first of ';', ',', tab,
\* '|' under which its header line has more than 10 columns; a later delimiter
\* is never used when an earlier one qualifies, and every header and value of
\* every loaded row is trimmed.
Qualifies(file, k) == Len(Split(FileLines(file)[1], Delimiters[k])) > MinColumns
Qualifying(file) == {k \in 1..Len(Delimiters) : Qualifies(file, k)}
FirstQualifying(file) == CHOOSE k \in Qualifying(file) : \A j \in Qualifying(file) : k <= j
TrimmedParse(file, j, d) ==
    LET names == Split(FileLines(file)[1], d)
        cells == Split(FileLines(file)[j + 1], d)
    IN [k \in {Strip(names[i]) : i \in 1..Len(names)} |->
           LET i == CHOOSE i \in 1..Len(names) : Strip(names[i]) = k
           IN IF i <= Len(cells) THEN Strip(cells[i]) ELSE <<>>]
C24_FirstDelimiterWholeFile ==
    (fx.op = "parsed" /\ fx.file.readable) =>
        IF Qualifying(fx.file) = {} THEN fx.out = <<>>
        ELSE /\ Len(fx.out) = Len(FileLines(fx.file)) - 1
             /\ \A j \in 1..Len(fx.out) :
                    fx.out[j] = TrimmedParse(fx.file, j, Delimiters[FirstQualifying(fx.file)])

\* ---------------------------------------------------------------------------
\* C22: once a load has found the directory, every later load returns the table
\* of that load, whatever happens to the reference files, until clear_cache is
\* called; the first load after clear_cache reads the directory as it is then.
C22_ServedFromCache ==
    [][fx'.step = "load" =>
          IF fx.served.filled THEN fx'.out = fx.served.data
          ELSE fx.dir.exists => fx'.out = ReadDir(fx.dir.listing, <<>>, 0).data]_vars

\* A load answered with the table of an earlier load although the directory
\* now holds other rows.
C22_Witness ==
    /\ fx.op = "refdir" /\ fx.step = "load" /\ fx.served.filled
    /\ fx.dir.exists /\ fx.dir.listing # fx.listed
    /\ fx.out = fx.served.data
    /\ fx.out # ReadDir(fx.dir.listing, <<>>, 0).data

\* ---------------------------------------------------------------------------
\* C23: a reference file that no delimiter fits, or that cannot be read, gives
\* no rows and does not end the load: the table is the rows of the other files,
\* one file after the other.
FileFails(file) == ~file.readable \/ FileLines(file) = <<>> \/ Qualifying(file) = {}
CsvEntry(e) == e.csv
FileParses(e) == ~FileFails(e.file)
RECURSIVE RowsOf(_)
RowsOf(listing) ==
    IF listing = <<>> THEN <<>> ELSE LoadSingleCsv(Head(listing).file) \o RowsOf(Tail(listing))
C23_FailedFileSkipped ==
    (fx.op = "refdir" /\ fx.served.filled /\ fx.step = "load") =>
        fx.out = RowsOf(SelectSeq(SelectSeq(fx.listed, CsvEntry), FileParses))

C23_Witness ==
    /\ fx.op = "refdir" /\ fx.served.filled /\ fx.step = "load"
    /\ \E i \in 1..Len(fx.listed) : fx.listed[i].csv /\ FileFails(fx.listed[i].file)
    /\ fx.listed[Len(fx.listed)].csv /\ ~FileFails(fx.listed[Len(fx.listed)].file)
    /\ fx.out # <<>>

\* ---------------------------------------------------------------------------
\* C25: whatever goods-receipt process calls have run, repeated or concurrent,
\* there is at most one delivery-note record per number; a call that finds the
\* record of its number creates no record, imports no line items and goes on
\* to the relocation.
FindsExisting(t) ==
    /\ tasks[t].pc = "doc_proc"
    /\ kind[tasks[t].cur] = "we"
    /\ FindDocumentByPath(FindCurrentFilePath(tasks[t].cur)) # 0
    /\ lieferscheine[NrOf(tasks[t].cur)] > 0
AtSourceCheck == fx.op = "relocated" /\ fx.rel.category
C27_SourceGoneIsSuccess ==
    (AtSourceCheck /\ ~fx.rel.src_exists) =>
        /\ fx.out.ret
        /\ ~fx.out.moved
        /\ fx.out.target = (IF fx.rel.target_taken THEN "other" ELSE "free")
        /\ fx.out.markers = fx.rel.markers
        /\ ~fx.out.row_updated

C27_Witness ==
    /\ AtSourceCheck /\ ~fx.rel.src_exists /\ ~fx.rel.in_target
    /\ fx.rel.markers = Suffixes
    /\ fx.out.ret

\* ---------------------------------------------------------------------------
\* C28: relocation never overwrites a file: when the target path computed is
\* taken, nothing is moved, the file there stays as it is, and the call counts
\* as a success.
C28_NeverOverwrites ==
    (AtSourceCheck /\ fx.rel.target_taken) =>
        /\ ~fx.out.moved
        /\ fx.out.target = "other"
        /\ fx.out.ret

\* ---------------------------------------------------------------------------
\* C29: whenever relocation has moved the file and reported success, the
\* document row holds the new path and the canonical file name.
C29_RowFollowsFile ==
    (fx.op = "relocated" /\ fx.out.moved /\ fx.out.ret) => fx.out.row_updated

\* ---------------------------------------------------------------------------
\* C30: for the number 131/25 the file goes to
\* processed/lieferscheine/lieferschein_extern/lief_ext_131-25_<timestamp>_<id>.pdf;
\* the number part of a name holds only alphanumerics, '-' and '_', and is the
\* placeholder when nothing else would be left.
NameIsCanonical ==
    /\ fx.out.neuer_pfad.dir = <<"processed", "lieferscheine", "lieferschein_extern">>
    /\ fx.out.neuer_pfad.prefix = "lief_ext_"
    /\ fx.out.neuer_pfad.timestamp = fx.rel.timestamp
    /\ fx.out.neuer_pfad.id = fx.rel.id
    /\ fx.out.neuer_pfad.ext = ".pdf"
NrPartIsSafe ==
    LET part == fx.out.neuer_pfad.nr
        kept == {i \in 1..Len(fx.rel.nr) :
                    fx.rel.nr[i] \in Alnums \/ fx.rel.nr[i] = "-" \/ fx.rel.nr[i] = "_"}
    IN /\ \/ part = <<"unbekannt">>
          \/ \A i \in 1..Len(part) : part[i] \in Alnums \/ part[i] = "-" \/ part[i] = "_"
       /\ part # <<>>
       /\ (kept = {}) = (part = <<"unbekannt">>)
C30_CanonicalNameDashed ==
    (fx.op = "relocated" /\ fx.out.moved) =>
        /\ NameIsCanonical
        /\ NrPartIsSafe
        /\ (fx.rel.nr = <<"1", "3", "1", "/", "2", "5">>
               => fx.out.neuer_pfad.nr = <<"1", "3", "1", "-", "2", "5">>)

\* C30, as the code has it: the characters that are not kept are dropped, so
\* 131/25 gives lief_ext_13125_<timestamp>_<id>.pdf.
C30_CanonicalName ==
    (fx.op = "relocated" /\ fx.out.moved) =>
        /\ NameIsCanonical
        /\ NrPartIsSafe
        /\ (fx.rel.nr = <<"1", "3", "1", "/", "2", "5">>
               => fx.out.neuer_pfad.nr = <<"1", "3", "1", "2", "5">>)

C30_Witness ==
    /\ fx.op = "relocated" /\ fx.out.moved
    /\ fx.rel.nr = <<"1", "3", "1", "/", "2", "5">>
    /\ fx.out.neuer_pfad.nr = <<"1", "3", "1", "2", "5">>

\* ---------------------------------------------------------------------------
\* C26: when a number is extracted and no reference row has exactly that
\* number, the goods-receipt processor still returns success, creates no line
\* item and still relocates the file to the category directory.
ReachesImport ==
    /\ fx.op = "processed"
    /\ fx.call.nr # NoNr /\ fx.call.doc_found /\ fx.call.categorized
    /\ ~fx.call.existing /\ fx.call.create_ok
NoExactRow == \A i \in 1..Len(fx.call.rows) : Strip(fx.call.rows[i].nr) # fx.call.nr
MoveCanWork ==
    /\ fx.call.rel.category /\ fx.call.rel.src_exists
    /\ ~fx.call.rel.in_target /\ fx.call.rel.move_ok
C26_NoMatchStillSucceeds ==
    (ReachesImport /\ NoExactRow) =>
        /\ fx.out.ret
        /\ fx.out.items = 0
        /\ fx.out.relocation
        /\ (MoveCanWork => fx.out.rel.moved /\ fx.out.rel.target = "doc"
                              /\ fx.out.rel.neuer_pfad.dir
                                     = <<"processed", "lieferscheine", "lieferschein_extern">>)

C26_Witness ==
    /\ ReachesImport /\ NoExactRow /\ MoveCanWork
    /\ Len(fx.call.rows) > 0
    /\ fx.out.ret /\ fx.out.items = 0 /\ fx.out.rel.moved

\* ---------------------------------------------------------------------------
\* C31: after any sequence of relocations no two relocated documents share the
\* same target path, even when the same number recurs, when two numbers are
\* cleaned to the same string, or when the relocations happen within the same
\* second.
C31_NamesUnique ==
    fx.op = "names" =>
        \A a, b \in fx.moved : a.id # b.id => a.pfad # b.pfad

C31_Witness ==
    /\ fx.op = "names"
    /\ \E a, b, c \in fx.moved :
          /\ Cardinality({a.id, b.id, c.id}) = 3
          /\ a.nr = b.nr /\ a.timestamp = b.timestamp
          /\ c.nr # a.nr /\ c.timestamp = a.timestamp
          /\ SafeLieferscheinnummer(c.nr) = SafeLieferscheinnummer(a.nr)

\* ---------------------------------------------------------------------------
\* C32: a page is removed by the blank-page filter if and only if its
\* near-white pixel fraction exceeds 0.98 and its text layer has neither more
\* than 10 meaningful characters (a trimmed text of more than 10 characters
\* with an alphanumeric one among them) nor any domain keyword: a 99%-white
\* page containing the anchor keyword is kept, a 99%-white page without
\* meaningful text is removed, and a page with white fraction 80% is kept
\* whatever its text.
NearWhite(page) ==
    page.histogram[250] + page.histogram[251] + page.histogram[252]
        + page.histogram[253] + page.histogram[254] + page.histogram[255]
WhiteShare(page, percent) == NearWhite(page) * 100 = percent * page.size[1] * page.size[2]
Trimmed(text) ==
    LET inner == {i \in 1..Len(text) : text[i] \notin {" ", "TAB"}}
    IN IF inner = {} THEN <<>>
       ELSE SubSeq(text, CHOOSE i \in inner : \A j \in inner : i <= j,
                         CHOOSE i \in inner : \A j \in inner : j <= i)
DomainWords == {"Artikel", "BESTELLUNG", "Lieferschein", "Wareneingang", "WARENEINGANG"}
HasDomainWord(text) == \E i \in 1..Len(text) : text[i] \in DomainWords
HasMeaningfulText(text) ==
    /\ TextLen(Trimmed(text)) > 10
    /\ \E i \in 1..Len(text) : text[i] \notin {" ", "TAB", "/"}
C32_BlankIff ==
    fx.op = "blank_tested" =>
        /\ fx.out <=> /\ NearWhite(fx.page) * 100 > 98 * fx.page.size[1] * fx.page.size[2]
                      /\ ~HasMeaningfulText(fx.page.text)
                      /\ ~HasDomainWord(fx.page.text)
        /\ (WhiteShare(fx.page, 99) /\ HasAnchor(fx.page.text)) => ~fx.out
        /\ (WhiteShare(fx.page, 99) /\ Trimmed(fx.page.text) = <<>>) => fx.out
        /\ WhiteShare(fx.page, 80) => ~fx.out

C32_Witness ==
    /\ fx.op = "blank_tested"
    /\ WhiteShare(fx.page, 99)
    /\ TextLen(Trimmed(fx.page.text)) = 11
    /\ ~HasDomainWord(fx.page.text)
    /\ ~HasMeaningfulText(fx.page.text)
    /\ fx.out

\* ---------------------------------------------------------------------------
\* C33: if a step of the blank-page filter fails (opening or analysing the
\* document, deleting a page, creating or saving the temporary file), the
\* original file at the path is left unchanged and no temporary file is left
\* behind; when no page is blank the file is not rewritten at all.
StepBeforeSwapFails ==
    \/ fx.fail \in {"open", "analysis"}
    \/ /\ \E p \in 1..Len(fx.file) : IsBlank(fx.file[p])
       /\ fx.fail \in {"delete", "tempfile", "save", "close"}
NoPageBlank == \A p \in 1..Len(fx.file) : ~IsBlank(fx.file[p])
C34_IdentitySurvivesRelocation ==
    (fx.op = "resolved" /\ fx.relocated /\ fx.row_updated) =>
        /\ fx.found # NotFound
        /\ fx.found \in fx.disk
        /\ fx.found = fx.row.pfad

\* ---------------------------------------------------------------------------
\* C35 (as stated): every filename in the scheduler's processed set has
\* completed every required stage (OCR done, registered, document processing
\* done); a file whose processing ended in an error or was abandoned is never
\* in that set.
C35_OnlyFullyProcessed ==
    \A f \in processed_files :
        /\ <<f, "ocr">> \in ran
        /\ <<f, "register">> \in ran
        /\ <<f, "doc">> \in ran

\* C35 (amended): every filename in the processed set has had its OCR stage
\* completed; a pass that was abandoned because the file could not be located,
\* or whose registration or document processing failed, puts the file in the
\* set all the same.
C35_ProcessedHadOcr ==
    \A f \in processed_files : <<f, "ocr">> \in ran

C35_Witness ==
    \E f \in processed_files :
        /\ <<f, "ocr">> \in ran
        /\ <<f, "register">> \notin ran
        /\ <<f, "doc">> \notin ran
        /\ f \notin passDone

\* ---------------------------------------------------------------------------
\* C36: the polling loop never overlaps itself and survives failing polls: a
\* loop-driven poll starts only when no other loop-driven poll is under way,
\* an error raised while processing one file (or a file that cannot be found)
\* leaves the poll with its remaining files to process, and no step of a poll
\* ends the loop while the scheduler is running.
InPoll(t) == tasks[t].pc \in PassPcs \cup {"next"}
LoopPollStarts(t) ==
    tasks[t].kind = "loop" /\ tasks[t].pc = "ready" /\ tasks'[t].pc = "next"
\* The step of a task inside a pass (Stop is the one step that cancels a task).
PassStep(t) ==
    tasks[t].pc \in PassPcs /\ tasks'[t] # tasks[t] /\ ~(running /\ ~running')
\* The pass of t is about to end in the handler of line 273.
PassError(t) ==
    tasks[t].pc = "ocr_ret" /\ tasks[t].res /\ tasks[t].cur \notin inIntake
C36_LoopSurvives ==
    /\ [](running => /\ taskRef \in Tasks
                     /\ LoopTasks = {taskRef})
    /\ [][\A t \in Tasks :
            /\ LoopPollStarts(t) =>
                  \A u \in Tasks \ {t} : ~(tasks[u].kind = "loop" /\ InPoll(u))
            /\ PassStep(t) =>
                  /\ tasks'[t].kind = tasks[t].kind
                  /\ tasks'[t].todo = tasks[t].todo
                  /\ InPoll(t)'
            /\ (PassStep(t) /\ PassError(t)) => tasks'[t].pc = "next"]_vars

\* A loop-driven poll has another file left after a pass that ended in the
\* handler of line 273: the file was moved away during its OCR, the marker was
\* opened all the same and getmtime raised.
C36_Witness ==
    \E t \in Tasks :
        /\ tasks[t].kind = "loop" /\ tasks[t].pc = "next" /\ tasks[t].todo # {}
        /\ tasks[t].cur \in processed_files
        /\ tasks[t].cur \notin inIntake
        /\ OcrDone(tasks[t].cur)
        /\ running

\* ---------------------------------------------------------------------------
\* C37: while the scheduler keeps running, under fair scheduling and with an
\* OCR engine that eventually succeeds and files that stay locatable, every
\* PDF of the intake directory eventually reaches a terminal state (a pass
\* has run through all its stages, the file relocated or left in place),
\* after which polls perform no work on it.
Settled(f) ==
    /\ f \in passDone
    /\ f \in processed_files
    /\ \A t \in Tasks : /\ f \notin tasks[t].todo
                        /\ tasks[t].cur = f => tasks[t].pc \notin PassPcs
C38_OneRecordPerFile ==
    \A f \in Files : Cardinality(DocsNamed(f)) <= 1

\* ---------------------------------------------------------------------------
\* C39: loading a single reference file is all-or-nothing: the rows returned
\* are either all of the file's records parsed with one single delimiter, or
\* none; a ragged record part-way through the file never leaves a prefix of
\* the rows, nor rows parsed under two different delimiters, in the table.
WholeFileWith(d) ==
    /\ Len(fx.out) = Len(FileLines(fx.file)) - 1
    /\ \A j \in 1..Len(fx.out) : fx.out[j] = TrimmedParse(fx.file, j, d)
C39_AllOrNothing ==
    (fx.op = "parsed" /\ fx.file.readable) =>
        \/ fx.out = <<>>
        \/ \E k \in 1..Len(Delimiters) : WholeFileWith(Delimiters[k])

\* ---------------------------------------------------------------------------
\* C40: a goods-receipt Process call that returns failure leaves the persistent
\* state unchanged: the document record's category, path and filename, the
\* delivery-note records and line items, and the file's location are the same
\* as before the call.
ProcessReturnsFailure(t) ==
    tasks[t].pc = "doc_proc" /\ tasks'[t].pc = "doc_mark" /\ ~tasks'[t].res
C40_FailureChangesNothing ==
    [][\A t \in Tasks :
          ProcessReturnsFailure(t) =>
              UNCHANGED <<docs, lieferscheine, chargen, inIntake, processedTree>>]_vars

====
